---- MODULE Spec2Model ----
(***************************************************************************)
(* State-machine model of the client engine in web/js/App.js: the overlay  *)
(* reconciler, the live-marker manager, the route workflow and the three   *)
(* pollers.  Every handler of the single-threaded event loop is one        *)
(* action; a handler that awaits a network request is split at the await   *)
(* into the step that issues the request and the step that processes its   *)
(* result (or its failure).                                                *)
(*                                                                         *)
(* Handlers are written as operators from an application record S (one     *)
(* field per field of the App object, plus the render surface and the      *)
(* requests in flight) to the record after the call, so that a handler     *)
(* that calls another handler is the composition of the two operators.     *)
(***************************************************************************)
EXTENDS Integers, Sequences, FiniteSets, TLC

\* ------------------------------------------------------------------ bounds

\* Requests of one kind the network may hold at once (the guards of the
\* code keep it at one; the bound only stops a broken guard from running
\* away).
MaxOutstanding == 2

\* Plan / activate requests the user may have in flight at once.
MaxPending == 1

\* ------------------------------------------------------- program constants

pollIntervalMs == 1500
focusedPollIntervalMs == 6000
uiRefreshMs == 2000

\* --------------------------------------------------------------- universes

Null == "null"

\* Link ids served by the backend, and the static type of each.
Ids == {"L1", "L2"}
TypeOf == [i \in Ids |-> IF i = "L2" THEN "transit" ELSE "road"]

\* Congestion index in hundredths (ci 0.05, ci 0.9).
CiVals == {5, 90}

\* total_length_m values; Null stands for a missing / non-numeric field.
Lengths == {"900", "1200"}

\* Ordered link-id lists a plan or a route carries.
RouteLists == {<<"L1">>, <<"L1", "L2">>, <<"L2", "L1">>}

Range(s) == {s[k] : k \in 1..Len(s)}

Put(f, k, v) == [x \in (DOMAIN f) \cup {k} |-> IF x = k THEN v ELSE f[x]]
Del(f, k) == [x \in (DOMAIN f) \ {k} |-> f[x]]
Empty == [x \in {} |-> Null]

\* ------------------------------------------------------------ style policy

\* applyRouteStyleOverrides(style, linkId): raise-the-floor overrides in the
\* order planned, active, start, end.
\* The smaller of two numbers, where the code takes the larger.
Min(a, b) == IF a <= b THEN a ELSE b

Max(a, b) == IF a >= b THEN a ELSE b

applyPlanned(st) ==
    [st EXCEPT !.glowColor = "#38bdf8",
               !.glowOpacity = Max(@, 35),
               !.weight = Max(@, 6)]

applyActive(st) ==
    [st EXCEPT !.glowColor = "#22c55e",
               !.glowOpacity = Max(@, 45),
               !.weight = Max(@, 6)]

applyStart(st) ==
    [st EXCEPT !.color = "#22c55e",
               !.glowColor = "#22c55e",
               !.opacity = 100,
               !.glowOpacity = Max(@, 60),
               !.weight = Max(@, 7)]

applyEnd(st) ==
    [st EXCEPT !.color = "#f43f5e",
               !.glowColor = "#f43f5e",
               !.opacity = 100,
               !.glowOpacity = Max(@, 60),
               !.weight = Max(@, 7)]

\* Variant of applyRouteStyleOverrides that applies the planned override
\* after the active one.
applyRouteStyleOverridesPlannedLast(S, style, linkId) ==
    IF linkId = Null THEN style ELSE
    LET s1 == IF linkId \in S.activeLinkIds THEN applyActive(style) ELSE style
        s2 == IF linkId \in Range(S.plannedLinkIds) THEN applyPlanned(s1) ELSE s1
        s3 == IF linkId = S.startLinkId THEN applyStart(s2) ELSE s2
        s4 == IF linkId = S.endLinkId THEN applyEnd(s3) ELSE s3
    IN  s4

applyRouteStyleOverrides(S, style, linkId) ==
    IF linkId = Null THEN style ELSE
    LET s1 == IF linkId \in Range(S.plannedLinkIds) THEN applyPlanned(style) ELSE style
        s2 == IF linkId \in S.activeLinkIds THEN applyActive(s1) ELSE s1
        s3 == IF linkId = S.startLinkId THEN applyStart(s2) ELSE s2
        s4 == IF linkId = S.endLinkId THEN applyEnd(s3) ELSE s3
    IN  s4

\* Variant of getLinkStyle that highlights live links in both view modes.
getLinkStyleLiveOnly(S, link, type) ==
    LET baseColor == IF type = "transit" THEN "#a855f7" ELSE "#334155"
        ci == link.ci
        bucket == IF ci > 80 THEN "#ff0055"
                  ELSE IF ci > 60 THEN "#ffcc00"
                  ELSE IF ci > 40 THEN "#00f2ff"
                  ELSE "#334155"
        color == IF type = "transit" THEN "#a855f7" ELSE bucket
    IN  IF ~link.is_live
        THEN applyRouteStyleOverrides(S,
                 [color |-> baseColor, glowColor |-> baseColor,
                  weight |-> IF type = "transit" THEN 3 ELSE 4,
                  opacity |-> 35, glowOpacity |-> 5], link.id)
        ELSE applyRouteStyleOverrides(S,
                 [color |-> color, glowColor |-> color,
                  weight |-> IF ci > 80 THEN 6 ELSE IF type = "transit" THEN 3 ELSE 5,
                  opacity |-> IF ci > 10 THEN 100 ELSE 40,
                  glowOpacity |-> IF ci > 10 THEN 25 ELSE 5], link.id)

\* getLinkStyle(link, type); opacities in hundredths.
getLinkStyle(S, link, type) ==
    LET isSimView == S.viewMode = "simulator"
        isLive == link.is_live
        shouldHighlight == IF isSimView THEN ~isLive ELSE isLive
        baseColor == IF type = "transit" THEN "#a855f7" ELSE "#334155"
        ci == link.ci
        bucket == IF ci > 80 THEN "#ff0055"
                  ELSE IF ci > 60 THEN "#ffcc00"
                  ELSE IF ci > 40 THEN "#00f2ff"
                  ELSE "#334155"
        color == IF type = "transit" THEN "#a855f7" ELSE bucket
    IN  IF ~shouldHighlight
        THEN applyRouteStyleOverrides(S,
                 [color |-> baseColor, glowColor |-> baseColor,
                  weight |-> IF type = "transit" THEN 3 ELSE 4,
                  opacity |-> 35, glowOpacity |-> 5], link.id)
        ELSE applyRouteStyleOverrides(S,
                 [color |-> color, glowColor |-> color,
                  weight |-> IF ci > 80 THEN 6 ELSE IF type = "transit" THEN 3 ELSE 5,
                  opacity |-> IF ci > 10 THEN 100 ELSE 40,
                  glowOpacity |-> IF ci > 10 THEN 25 ELSE 5], link.id)

\* ------------------------------------------------------------------- state

VARIABLES
    map,                    \* this.map is set (initMap has run)
    polylines,              \* id -> style last put on the entity's layers
    mapLayers,              \* ids whose layers are on the render surface
    liveMarkers,            \* ids that have a marker
    isChartRequestInFlight,
    isPollRequestInFlight,
    isRoutePollInFlight,
    sinceFullPoll,          \* Date.now() - lastFullPollAt, to the next threshold
    sinceUiRefresh,         \* Date.now() - lastUiRefreshAt: 0 or uiRefreshMs reached
    liveLinkIds,
    geometryLoaded,
    linkMeta,               \* id -> [type, coords]
    linkStateCache,         \* id -> last link state
    linkStyleCache,         \* id -> last style applied (the diff cache)
    lastLinks,              \* the last full snapshot
    lastRouteStyleIds,
    focusedMode,
    startLinkId,
    endLinkId,
    plannedLinkIds,
    plannedLengthM,
    activeLinkIds,
    activeLengthM,
    planMessage,
    viewMode,
    showLiveMarkers,
    pollInterval,           \* the three timers: armed or not
    routePollInterval,
    chartPollInterval,
    hidden,                 \* document.hidden
    reqFull,                \* /live requests in flight: their includeCoords
    reqRoute,               \* /route/live requests in flight
    reqChart,               \* /stats/history requests in flight
    reqAdmin,               \* /admin/links requests in flight: their includeCoords
    reqPlan,                \* /route/plan requests in flight
    reqActivate,            \* /route/activate requests in flight (their number)
    boot,                   \* position of bootstrap()
    entities,               \* id -> layer groups created and not yet removed
    created,                \* ids that ever had an entity created
    recreated,              \* ids that had an entity created more than once
    routeTimers             \* setInterval handles of the route poll not yet cleared

vars == <<map, polylines, mapLayers, liveMarkers, isChartRequestInFlight,
          isPollRequestInFlight, isRoutePollInFlight, sinceFullPoll,
          sinceUiRefresh, liveLinkIds,
          geometryLoaded, linkMeta, linkStateCache, linkStyleCache, lastLinks,
          lastRouteStyleIds, focusedMode, startLinkId, endLinkId, plannedLinkIds,
          plannedLengthM, activeLinkIds, activeLengthM, planMessage, viewMode,
          showLiveMarkers, pollInterval, routePollInterval, chartPollInterval,
          hidden, reqFull, reqRoute, reqChart, reqAdmin, reqPlan, reqActivate,
          boot, entities, created, recreated, routeTimers>>

\* The application record of the current state. written is the log of the
\* ids whose layers received a setStyle call during the running handler, and
\* steps the log of the stages of pollState() it has gone through.
Cur ==
    [map |-> map, polylines |-> polylines, mapLayers |-> mapLayers,
     liveMarkers |-> liveMarkers,
     isChartRequestInFlight |-> isChartRequestInFlight,
     isPollRequestInFlight |-> isPollRequestInFlight,
     isRoutePollInFlight |-> isRoutePollInFlight,
     sinceFullPoll |-> sinceFullPoll, sinceUiRefresh |-> sinceUiRefresh,
     liveLinkIds |-> liveLinkIds,
     geometryLoaded |-> geometryLoaded, linkMeta |-> linkMeta,
     linkStateCache |-> linkStateCache, linkStyleCache |-> linkStyleCache,
     lastLinks |-> lastLinks, lastRouteStyleIds |-> lastRouteStyleIds,
     focusedMode |-> focusedMode, startLinkId |-> startLinkId,
     endLinkId |-> endLinkId, plannedLinkIds |-> plannedLinkIds,
     plannedLengthM |-> plannedLengthM, activeLinkIds |-> activeLinkIds,
     activeLengthM |-> activeLengthM, planMessage |-> planMessage,
     viewMode |-> viewMode, showLiveMarkers |-> showLiveMarkers,
     pollInterval |-> pollInterval, routePollInterval |-> routePollInterval,
     chartPollInterval |-> chartPollInterval, hidden |-> hidden,
     reqFull |-> reqFull, reqRoute |-> reqRoute, reqChart |-> reqChart,
     reqAdmin |-> reqAdmin, reqPlan |-> reqPlan, reqActivate |-> reqActivate,
     boot |-> boot, entities |-> entities, created |-> created,
     recreated |-> recreated, routeTimers |-> routeTimers,
     written |-> {}, steps |-> <<>>]

\* The next state is the application record S.
Becomes(S) ==
    /\ map' = S.map
    /\ polylines' = S.polylines
    /\ mapLayers' = S.mapLayers
    /\ liveMarkers' = S.liveMarkers
    /\ isChartRequestInFlight' = S.isChartRequestInFlight
    /\ isPollRequestInFlight' = S.isPollRequestInFlight
    /\ isRoutePollInFlight' = S.isRoutePollInFlight
    /\ sinceFullPoll' = S.sinceFullPoll
    /\ sinceUiRefresh' = S.sinceUiRefresh
    /\ liveLinkIds' = S.liveLinkIds
    /\ geometryLoaded' = S.geometryLoaded
    /\ linkMeta' = S.linkMeta
    /\ linkStateCache' = S.linkStateCache
    /\ linkStyleCache' = S.linkStyleCache
    /\ lastLinks' = S.lastLinks
    /\ lastRouteStyleIds' = S.lastRouteStyleIds
    /\ focusedMode' = S.focusedMode
    /\ startLinkId' = S.startLinkId
    /\ endLinkId' = S.endLinkId
    /\ plannedLinkIds' = S.plannedLinkIds
    /\ plannedLengthM' = S.plannedLengthM
    /\ activeLinkIds' = S.activeLinkIds
    /\ activeLengthM' = S.activeLengthM
    /\ planMessage' = S.planMessage
    /\ viewMode' = S.viewMode
    /\ showLiveMarkers' = S.showLiveMarkers
    /\ pollInterval' = S.pollInterval
    /\ routePollInterval' = S.routePollInterval
    /\ chartPollInterval' = S.chartPollInterval
    /\ hidden' = S.hidden
    /\ reqFull' = S.reqFull
    /\ reqRoute' = S.reqRoute
    /\ reqChart' = S.reqChart
    /\ reqAdmin' = S.reqAdmin
    /\ reqPlan' = S.reqPlan
    /\ reqActivate' = S.reqActivate
    /\ boot' = S.boot
    /\ entities' = S.entities
    /\ created' = S.created
    /\ recreated' = S.recreated
    /\ routeTimers' = S.routeTimers

\* State after the constructor.
Init ==
    /\ map = FALSE
    /\ polylines = Empty
    /\ mapLayers = {}
    /\ liveMarkers = {}
    /\ isChartRequestInFlight = FALSE
    /\ isPollRequestInFlight = FALSE
    /\ isRoutePollInFlight = FALSE
    /\ sinceFullPoll = focusedPollIntervalMs
    /\ sinceUiRefresh = uiRefreshMs
    /\ liveLinkIds = {}
    /\ geometryLoaded = FALSE
    /\ linkMeta = [i \in Ids |-> [type |-> "none", coords |-> FALSE]]
    /\ linkStateCache = Empty
    /\ linkStyleCache = Empty
    /\ lastLinks = <<>>
    /\ lastRouteStyleIds = {}
    /\ focusedMode = FALSE
    /\ startLinkId = Null
    /\ endLinkId = Null
    /\ plannedLinkIds = <<>>
    /\ plannedLengthM = Null
    /\ activeLinkIds = {}
    /\ activeLengthM = Null
    /\ planMessage = Null
    /\ viewMode = "live"
    /\ showLiveMarkers = TRUE
    /\ pollInterval = FALSE
    /\ routePollInterval = FALSE
    /\ chartPollInterval = FALSE
    /\ hidden = FALSE
    /\ reqFull = <<>>
    /\ reqRoute = 0
    /\ reqChart = 0
    /\ reqAdmin = <<>>
    /\ reqPlan = <<>>
    /\ reqActivate = 0
    /\ boot = "new"
    /\ entities = [i \in Ids |-> 0]
    /\ created = {}
    /\ recreated = {}
    /\ routeTimers = 0

\* -------------------------------------------------------------- reconciler

\* A snapshot is a sequence of link entries
\*   [id, type, is_live, ci, coords]
\* where coords says whether the entry carries a coordinates array of at
\* least two points.

\* Options the layers of a new entity are created with.
InitialStyle(type) ==
    [color |-> "#444",
     glowColor |-> IF type = "transit" THEN "#a855f7" ELSE "#334155",
     weight |-> IF type = "transit" THEN 3 ELSE 4,
     opacity |-> 60,
     glowOpacity |-> 15]

\* createPolylineForLink without its this.polylines[linkId] guard.
createPolylineForLinkUnguarded(S, linkId, coords, type) ==
    IF ~S.map THEN S
    ELSE IF ~coords THEN S
    ELSE [S EXCEPT !.polylines = Put(@, linkId, InitialStyle(type)),
                   !.mapLayers = @ \cup {linkId},
                   !.entities[linkId] = @ + 1,
                   !.created = @ \cup {linkId},
                   !.recreated = IF linkId \in S.created THEN @ \cup {linkId} ELSE @]

createPolylineForLink(S, linkId, coords, type) ==
    IF ~S.map \/ linkId \in DOMAIN S.polylines THEN S
    ELSE IF ~coords THEN S
    ELSE [S EXCEPT !.polylines = Put(@, linkId, InitialStyle(type)),
                   !.mapLayers = @ \cup {linkId},
                   !.entities[linkId] = @ + 1,
                   !.created = @ \cup {linkId},
                   !.recreated = IF linkId \in S.created THEN @ \cup {linkId} ELSE @]

getLinkMeta(S, link) ==
    IF link.id = Null THEN S
    ELSE IF link.type # S.linkMeta[link.id].type
         THEN [S EXCEPT !.linkMeta[link.id].type = link.type]
         ELSE S

\* polyGroup.core.setStyle / polyGroup.glow.setStyle on the render surface.
setStyle(S, linkId, style) ==
    [S EXCEPT !.polylines[linkId] = style,
              !.written = @ \cup {linkId}]

\* applyLinkStyle without the comparison with the cached style.
applyLinkStyleAlways(S, linkId, style) ==
    [setStyle(S, linkId, style) EXCEPT !.linkStyleCache = Put(@, linkId, style)]

\* applyLinkStyle without the linkStyleCache.set that follows the write.
applyLinkStyleUncached(S, linkId, style) ==
    IF linkId \notin DOMAIN S.linkStyleCache \/ S.linkStyleCache[linkId] # style
    THEN setStyle(S, linkId, style)
    ELSE S

applyLinkStyle(S, linkId, style) ==
    IF linkId \notin DOMAIN S.linkStyleCache \/ S.linkStyleCache[linkId] # style
    THEN [setStyle(S, linkId, style) EXCEPT !.linkStyleCache = Put(@, linkId, style)]
    ELSE S

updateLinkState(S, link) ==
    IF link.id = Null THEN S
    ELSE
    LET S1 == getLinkMeta(S, link)
        meta == S1.linkMeta[link.id]
        type == IF meta.type # "none" THEN meta.type ELSE link.type
        S2 == IF link.id \in DOMAIN S1.polylines THEN S1
              ELSE IF meta.coords \/ link.coords
                   THEN createPolylineForLink(S1, link.id, TRUE, type)
                   ELSE S1
    IN  IF link.id \notin DOMAIN S2.polylines THEN S2
        ELSE [applyLinkStyle(S2, link.id, getLinkStyle(S2, link, type))
                 EXCEPT !.linkStateCache =
                     Put(@, link.id, [id |-> link.id, type |-> type,
                                      is_live |-> link.is_live, ci |-> link.ci])]

RECURSIVE updateLinks(_, _, _)
\* The forEach as a loop that stops at the first entry without an id.
updateLinksAborting(S, links, k) ==
    IF k > Len(links) THEN S
    ELSE IF links[k].id = Null THEN S
    ELSE updateLinks(updateLinkState(S, links[k]), links, k + 1)

\* links.forEach(link => this.updateLinkState(link)), from entry k on.
updateLinks(S, links, k) ==
    IF k > Len(links) THEN S
    ELSE updateLinks(updateLinkState(S, links[k]), links, k + 1)

clearLiveMarkers(S) == [S EXCEPT !.liveMarkers = {}]

\* getLinkCenter(link) resolves a point: from the cached center, or from the
\* entry's own coordinates (which it then caches).
hasLinkCenter(S, link) ==
    /\ link.id # Null
    /\ (S.linkMeta[link.id].coords \/ link.coords)

updateLiveMarkers(S, links) ==
    IF ~S.showLiveMarkers THEN clearLiveMarkers(S)
    ELSE
    LET live == {k \in 1..Len(links) : links[k].is_live /\ hasLinkCenter(S, links[k])}
        liveIds == {links[k].id : k \in live}
        fresh == {links[k].id : k \in {j \in live : ~S.linkMeta[links[j].id].coords}}
    IN  [S EXCEPT !.liveMarkers = liveIds,
                  !.linkMeta = [i \in Ids |->
                      IF i \in fresh THEN [@[i] EXCEPT !.coords = TRUE] ELSE @[i]]]

\* The pruning loop without its linkStyleCache.delete.
pruneMissingKeepsStyle(S, keep) ==
    LET gone == (DOMAIN S.polylines) \ keep
    IN  [S EXCEPT !.polylines = [i \in (DOMAIN @) \ gone |-> @[i]],
                  !.mapLayers = @ \ gone,
                  !.linkStateCache = [i \in (DOMAIN @) \ gone |-> @[i]],
                  !.entities = [i \in Ids |-> IF i \in gone THEN @[i] - 1 ELSE @[i]]]

\* Variant of pruneMissing that drops the cached metadata of a pruned id too.
pruneMissingDropsMeta(S, keep) ==
    LET gone == (DOMAIN S.polylines) \ keep
    IN  [S EXCEPT !.polylines = [i \in (DOMAIN @) \ gone |-> @[i]],
                  !.mapLayers = @ \ gone,
                  !.linkStateCache = [i \in (DOMAIN @) \ gone |-> @[i]],
                  !.linkStyleCache = [i \in (DOMAIN @) \ gone |-> @[i]],
                  !.linkMeta = [i \in Ids |-> IF i \in gone
                                              THEN [type |-> "none", coords |-> FALSE]
                                              ELSE @[i]],
                  !.entities = [i \in Ids |-> IF i \in gone THEN @[i] - 1 ELSE @[i]]]

\* The pruning loop of updateMap: every entity whose id is not in keep goes.
pruneMissing(S, keep) ==
    LET gone == (DOMAIN S.polylines) \ keep
    IN  [S EXCEPT !.polylines = [i \in (DOMAIN @) \ gone |-> @[i]],
                  !.mapLayers = @ \ gone,
                  !.linkStateCache = [i \in (DOMAIN @) \ gone |-> @[i]],
                  !.linkStyleCache = [i \in (DOMAIN @) \ gone |-> @[i]],
                  !.entities = [i \in Ids |-> IF i \in gone THEN @[i] - 1 ELSE @[i]]]

SnapshotIds(links) == {links[k].id : k \in 1..Len(links)} \ {Null}

\* updateMap(links) with pruneMissing = true, its only use.
updateMap(S, links) ==
    pruneMissing(updateLiveMarkers(updateLinks(S, links, 1), links),
                 SnapshotIds(links))

\* updateRouteLinks written as updateMap(links): a partial frame that prunes.
updateRouteLinksPruning(S, links) ==
    pruneMissing(updateLiveMarkers(updateLinks(S, links, 1), links),
                 SnapshotIds(links))

updateRouteLinks(S, links) ==
    updateLiveMarkers(updateLinks(S, links, 1), links)

\* ------------------------------------------------------- focus and routes

getRouteStyleIds(S) ==
    ({S.startLinkId, S.endLinkId} \ {Null})
        \cup Range(S.plannedLinkIds) \cup S.activeLinkIds

\* linkMeta.get(linkId) is defined once a type or a geometry was stored.
hasMeta(S, linkId) ==
    S.linkMeta[linkId].type # "none" \/ S.linkMeta[linkId].coords

getFallbackLinkState(S, linkId) ==
    [id |-> linkId,
     type |-> IF S.linkMeta[linkId].type # "none" THEN S.linkMeta[linkId].type ELSE "road",
     is_live |-> linkId \in S.liveLinkIds,
     ci |-> 0]

updateRouteStyleById(S, linkId) ==
    IF linkId \notin DOMAIN S.polylines THEN S
    ELSE IF linkId \in DOMAIN S.linkStateCache
         THEN applyLinkStyle(S, linkId,
                  getLinkStyle(S, S.linkStateCache[linkId], S.linkStateCache[linkId].type))
         ELSE IF ~hasMeta(S, linkId) THEN S
         ELSE applyLinkStyle(S, linkId,
                  getLinkStyle(S, getFallbackLinkState(S, linkId),
                               getFallbackLinkState(S, linkId).type))

RECURSIVE updateRouteStyles(_, _)
\* affected.forEach(linkId => this.updateRouteStyleById(linkId))
updateRouteStyles(S, affected) ==
    IF affected = {} THEN S
    ELSE LET linkId == CHOOSE i \in affected : TRUE
         IN  updateRouteStyles(updateRouteStyleById(S, linkId), affected \ {linkId})

refreshRouteStyles(S) ==
    LET nextIds == getRouteStyleIds(S)
        affected == (nextIds \cup S.lastRouteStyleIds) \cap Ids
    IN  updateRouteStyles([S EXCEPT !.lastRouteStyleIds = nextIds], affected)

applyFocusMode(S) ==
    IF ~S.map THEN S
    ELSE IF ~S.focusedMode \/ S.activeLinkIds = {}
         THEN LET S1 == [S EXCEPT !.mapLayers = DOMAIN S.polylines]
              IN  IF S.showLiveMarkers THEN updateLiveMarkers(S1, S1.lastLinks) ELSE S1
         ELSE clearLiveMarkers(
                  [S EXCEPT !.mapLayers = (DOMAIN S.polylines) \cap S.activeLinkIds])

setFocusedMode(S, enabled, force) ==
    LET nextValue == enabled /\ S.activeLinkIds # {}
    IN  IF ~force /\ nextValue = S.focusedMode THEN S
        ELSE applyFocusMode([S EXCEPT !.focusedMode = nextValue])

\* Variant of toggleFocusMode that always asks for focus.
toggleFocusModeSticky(S) ==
    IF S.activeLinkIds = {} THEN S
    ELSE setFocusedMode(S, TRUE, TRUE)

toggleFocusMode(S) ==
    IF S.activeLinkIds = {} THEN S
    ELSE setFocusedMode(S, ~S.focusedMode, TRUE)

\* pollRouteState() without its isRoutePollInFlight guard.
pollRouteStateUnguarded(S) ==
    IF S.hidden THEN S
    ELSE IF S.activeLinkIds = {} THEN S
    ELSE [S EXCEPT !.isRoutePollInFlight = TRUE, !.reqRoute = @ + 1]

\* pollRouteState() up to its await: the guards, then the request.
pollRouteState(S) ==
    IF S.isRoutePollInFlight \/ S.hidden THEN S
    ELSE IF S.activeLinkIds = {} THEN S
    ELSE [S EXCEPT !.isRoutePollInFlight = TRUE, !.reqRoute = @ + 1]

\* startRoutePolling without its routePollInterval guard: setInterval again,
\* the handle of the earlier timer overwritten.
startRoutePollingUnguarded(S) ==
    pollRouteState([S EXCEPT !.routePollInterval = TRUE,
                             !.routeTimers = @ + 1])

startRoutePolling(S) ==
    IF S.routePollInterval THEN S
    ELSE pollRouteState([S EXCEPT !.routePollInterval = TRUE,
                                  !.routeTimers = @ + 1])

\* Variant of stopRoutePolling that leaves the timer running.
stopRoutePollingKeepsTimer(S) == S

stopRoutePolling(S) ==
    IF ~S.routePollInterval THEN S
    ELSE [S EXCEPT !.routePollInterval = FALSE,
                   !.routeTimers = @ - 1]

\* A route is [link_ids, start_link_id, end_link_id, total_length_m]; NoRoute
\* stands for null, a missing link_ids array and an empty one.
NoRoute ==
    [link_ids |-> <<>>, start_link_id |-> Null, end_link_id |-> Null,
     total_length_m |-> Null]

\* setActiveRoute whose empty branch leaves the focus flag alone.
setActiveRouteKeepsFocus(S, route) ==
    IF route.link_ids = <<>>
    THEN refreshRouteStyles(
             stopRoutePolling([S EXCEPT !.activeLinkIds = {},
                                        !.activeLengthM = Null]))
    ELSE refreshRouteStyles(
             setFocusedMode(
                 startRoutePolling(
                     [S EXCEPT !.activeLinkIds = Range(route.link_ids),
                               !.activeLengthM = route.total_length_m,
                               !.startLinkId = IF route.start_link_id # Null
                                               THEN route.start_link_id ELSE @,
                               !.endLinkId = IF route.end_link_id # Null
                                             THEN route.end_link_id ELSE @]),
                 TRUE, TRUE))

setActiveRoute(S, route) ==
    IF route.link_ids = <<>>
    THEN refreshRouteStyles(
             setFocusedMode(
                 stopRoutePolling([S EXCEPT !.activeLinkIds = {},
                                            !.activeLengthM = Null]),
                 FALSE, TRUE))
    ELSE refreshRouteStyles(
             setFocusedMode(
                 startRoutePolling(
                     [S EXCEPT !.activeLinkIds = Range(route.link_ids),
                               !.activeLengthM = route.total_length_m,
                               !.startLinkId = IF route.start_link_id # Null
                                               THEN route.start_link_id ELSE @,
                               !.endLinkId = IF route.end_link_id # Null
                                             THEN route.end_link_id ELSE @]),
                 TRUE, TRUE))

clearPlannedRoute(S) ==
    [S EXCEPT !.plannedLinkIds = <<>>,
              !.plannedLengthM = Null,
              !.planMessage = Null]

\* setPlannedRoute that also takes the plan for the active route.
setPlannedRouteActivating(S, linkIds, lengthM) ==
    [S EXCEPT !.plannedLinkIds = linkIds,
              !.plannedLengthM = lengthM,
              !.activeLinkIds = Range(linkIds),
              !.activeLengthM = lengthM]

setPlannedRoute(S, linkIds, lengthM) ==
    [S EXCEPT !.plannedLinkIds = linkIds,
              !.plannedLengthM = lengthM]

\* Variant of handleLinkSelection whose first branch keeps the plan.
handleLinkSelectionKeepsPlan(S, linkId) ==
    IF linkId = Null THEN S
    ELSE refreshRouteStyles(
        IF linkId = S.startLinkId
        THEN [S EXCEPT !.startLinkId = Null, !.endLinkId = Null]
        ELSE IF linkId = S.endLinkId
        THEN clearPlannedRoute([S EXCEPT !.endLinkId = Null])
        ELSE IF S.startLinkId = Null \/ S.endLinkId # Null
        THEN clearPlannedRoute([S EXCEPT !.startLinkId = linkId, !.endLinkId = Null])
        ELSE [S EXCEPT !.endLinkId = linkId])

\* Variant of handleLinkSelection whose last branch starts over instead of
\* setting the end.
handleLinkSelectionRestarts(S, linkId) ==
    IF linkId = Null THEN S
    ELSE refreshRouteStyles(
        IF linkId = S.startLinkId
        THEN clearPlannedRoute([S EXCEPT !.startLinkId = Null, !.endLinkId = Null])
        ELSE IF linkId = S.endLinkId
        THEN clearPlannedRoute([S EXCEPT !.endLinkId = Null])
        ELSE clearPlannedRoute([S EXCEPT !.startLinkId = linkId, !.endLinkId = Null]))

handleLinkSelection(S, linkId) ==
    IF linkId = Null THEN S
    ELSE refreshRouteStyles(
        IF linkId = S.startLinkId
        THEN clearPlannedRoute([S EXCEPT !.startLinkId = Null, !.endLinkId = Null])
        ELSE IF linkId = S.endLinkId
        THEN clearPlannedRoute([S EXCEPT !.endLinkId = Null])
        ELSE IF S.startLinkId = Null \/ S.endLinkId # Null
        THEN clearPlannedRoute([S EXCEPT !.startLinkId = linkId, !.endLinkId = Null])
        ELSE [S EXCEPT !.endLinkId = linkId])

clearRouteSelection(S) ==
    refreshRouteStyles(
        clearPlannedRoute([S EXCEPT !.startLinkId = Null, !.endLinkId = Null]))

\* ------------------------------------------------------------------ inputs

Entries(i, withCoords) ==
    {[id |-> i, type |-> TypeOf[i], is_live |-> l, ci |-> c, coords |-> g] :
        l \in BOOLEAN, c \in CiVals, g \in IF withCoords THEN BOOLEAN ELSE {FALSE}}

\* Frames of the telemetry collaborator: at most one entry per id, in the
\* backend's fixed order; coordinates only when the request asked for them.
Snapshots(withCoords) ==
    {<<>>}
    \cup {<<e>> : e \in Entries("L1", withCoords) \cup Entries("L2", withCoords)}
    \cup {<<e1, e2>> : e1 \in Entries("L1", withCoords), e2 \in Entries("L2", withCoords)}

\* The link registry: every link, with its geometry when asked for and known.
Catalogs(withCoords) ==
    {<<e1, e2>> :
        e1 \in {e \in Entries("L1", withCoords) : ~e.is_live /\ e.ci = 5},
        e2 \in {e \in Entries("L2", withCoords) : ~e.is_live /\ e.ci = 5}}

\* Routes the backend may hold: it names both endpoints or neither.
ServerRoutes ==
    {[link_ids |-> l, start_link_id |-> IF ends THEN l[1] ELSE Null,
      end_link_id |-> IF ends THEN l[Len(l)] ELSE Null, total_length_m |-> m] :
        l \in RouteLists, ends \in BOOLEAN, m \in Lengths \cup {Null}}

\* Plans the backend may answer a request with: a path between its endpoints.
PlansFor(req) ==
    {l \in RouteLists : l[1] = req.start_link_id /\ l[Len(l)] = req.end_link_id}

\* Entries that lack an id: live and congested, with or without coordinates.
MalformedEntries ==
    {[id |-> Null, type |-> "road", is_live |-> TRUE, ci |-> 90, coords |-> g] :
        g \in BOOLEAN}

InsertAt(s, p, e) == SubSeq(s, 1, p - 1) \o <<e>> \o SubSeq(s, p, Len(s))

\* The frames with one entry that lacks an id put in at any position.
Broken(frames) ==
    UNION {{InsertAt(s, p, e) : p \in 1..(Len(s) + 1), e \in MalformedEntries} :
               s \in frames}

\* The entries of a frame that have an id.
WellFormed(links) == SelectSeq(links, LAMBDA e : e.id # Null)

NoCoords(s) == \A k \in 1..Len(s) : ~s[k].coords

RemoveAt(s, k) == SubSeq(s, 1, k - 1) \o SubSeq(s, k + 1, Len(s))

\* ------------------------------------------------------------------ pollers

\* pollState() with the idle interval whether or not a route is active.
pollStateFixedCadence(S) ==
    IF S.isPollRequestInFlight \/ S.hidden THEN S
    ELSE IF S.sinceFullPoll < pollIntervalMs
    THEN S
    ELSE [S EXCEPT !.sinceFullPoll = 0,
                   !.isPollRequestInFlight = TRUE,
                   !.reqFull = Append(@, ~S.geometryLoaded)]

\* pollState() up to its await: the guards, then the request.
pollState(S) ==
    IF S.isPollRequestInFlight \/ S.hidden THEN S
    ELSE IF S.sinceFullPoll <
              (IF S.activeLinkIds # {} THEN focusedPollIntervalMs ELSE pollIntervalMs)
    THEN S
    ELSE [S EXCEPT !.sinceFullPoll = 0,
                   !.isPollRequestInFlight = TRUE,
                   !.reqFull = Append(@, ~S.geometryLoaded)]

RECURSIVE applyGeometryLinks(_, _, _)
\* The links.forEach of applyNetworkGeometry, from entry k on.
applyGeometryLinks(S, links, k) ==
    IF k > Len(links) THEN S
    ELSE IF links[k].id = Null THEN applyGeometryLinks(S, links, k + 1)
    ELSE LET link == links[k]
             S1 == getLinkMeta(S, link)
             S2 == IF link.coords
                   THEN createPolylineForLink(
                            [S1 EXCEPT !.linkMeta[link.id].coords = TRUE],
                            link.id, TRUE, S1.linkMeta[link.id].type)
                   ELSE S1
         IN  applyGeometryLinks(S2, links, k + 1)

applyNetworkGeometry(S, links) ==
    LET S1 == applyGeometryLinks(S, links, 1)
        hasCoords == \E k \in 1..Len(links) : links[k].id # Null /\ links[k].coords
    IN  IF ~hasCoords THEN S1
        ELSE IF S1.focusedMode /\ S1.activeLinkIds # {}
             THEN applyFocusMode([S1 EXCEPT !.geometryLoaded = TRUE])
             ELSE [S1 EXCEPT !.geometryLoaded = TRUE]

\* syncAdminSelectionFromLive(links)
syncAdminSelectionFromLive(S, links) ==
    [S EXCEPT !.liveLinkIds = {links[k].id : k \in {j \in 1..Len(links) : links[j].is_live}}]

\* updateStats(data, refreshLists): the lists are refreshed when refreshLists
\* says so; clean says that the admin selection is not dirty, so that
\* syncAdminSelectionFromLive takes the frame.
updateStats(S, links, refreshLists, clean) ==
    IF ~refreshLists THEN S
    ELSE LET S1 == [S EXCEPT !.steps = Append(@, "refreshLists")]
         IN  IF clean THEN syncAdminSelectionFromLive(S1, links) ELSE S1

\* Variant of pollStateDone that leaves focus in order to render the frame.
pollStateDoneUnfocusing(S, includeCoords, links, refresh) ==
    LET S1 == IF includeCoords THEN applyNetworkGeometry(S, links) ELSE S
        S2 == [S1 EXCEPT !.lastLinks = links, !.focusedMode = FALSE]
        S3 == [updateMap(S2, links) EXCEPT !.steps = Append(@, "updateMap")]
        refreshLists == S3.sinceUiRefresh >= uiRefreshMs
        S4 == updateStats([S3 EXCEPT !.sinceUiRefresh = IF refreshLists THEN 0 ELSE @],
                          links, refreshLists, refresh)
    IN  [S4 EXCEPT !.isPollRequestInFlight = FALSE]

\* Variant of pollStateDone that refreshes the lists on every response.
pollStateDoneUnthrottled(S, includeCoords, links, refresh) ==
    LET S1 == IF includeCoords THEN applyNetworkGeometry(S, links) ELSE S
        S2 == [S1 EXCEPT !.lastLinks = links]
        S3 == IF ~S2.focusedMode \/ S2.activeLinkIds = {}
              THEN [updateMap(S2, links) EXCEPT !.steps = Append(@, "updateMap")]
              ELSE S2
        S4 == updateStats([S3 EXCEPT !.sinceUiRefresh = 0], links, TRUE, refresh)
    IN  [S4 EXCEPT !.isPollRequestInFlight = FALSE]

\* Variant of pollStateDone that reconciles the frame whether focused or not.
pollStateDoneReconciling(S, includeCoords, links, refresh) ==
    LET S1 == IF includeCoords THEN applyNetworkGeometry(S, links) ELSE S
        S2 == [S1 EXCEPT !.lastLinks = links]
        S3 == [updateMap(S2, links) EXCEPT !.steps = Append(@, "updateMap")]
        refreshLists == S3.sinceUiRefresh >= uiRefreshMs
        S4 == updateStats([S3 EXCEPT !.sinceUiRefresh = IF refreshLists THEN 0 ELSE @],
                          links, refreshLists, refresh)
    IN  [S4 EXCEPT !.isPollRequestInFlight = FALSE]

\* pollState() from the response on. The lists are refreshed when uiRefreshMs
\* have passed since they last were; refresh says whether the admin selection
\* is clean, so that the refresh also takes the live set of the frame.
pollStateDone(S, includeCoords, links, refresh) ==
    LET S1 == IF includeCoords THEN applyNetworkGeometry(S, links) ELSE S
        S2 == [S1 EXCEPT !.lastLinks = links]
        S3 == IF ~S2.focusedMode \/ S2.activeLinkIds = {}
              THEN [updateMap(S2, links) EXCEPT !.steps = Append(@, "updateMap")]
              ELSE S2
        refreshLists == S3.sinceUiRefresh >= uiRefreshMs
        S4 == updateStats([S3 EXCEPT !.sinceUiRefresh = IF refreshLists THEN 0 ELSE @],
                          links, refreshLists, refresh)
    IN  [S4 EXCEPT !.isPollRequestInFlight = FALSE]

\* Variant of pollStateFailed that leaves the in-flight flag set.
pollStateFailedLocked(S) == S

pollStateFailed(S) == [S EXCEPT !.isPollRequestInFlight = FALSE]

\* pollRouteState() from the response on.
pollRouteStateDone(S, active, hasRoute, route, hasLinks, links) ==
    IF ~active
    THEN [setActiveRoute(S, NoRoute) EXCEPT !.isRoutePollInFlight = FALSE]
    ELSE
    LET changed == Len(route.link_ids) # Cardinality(S.activeLinkIds)
                   \/ \E i \in Range(route.link_ids) : i \notin S.activeLinkIds
        S1 == IF ~hasRoute THEN S
              ELSE IF changed THEN setActiveRoute(S, route)
              ELSE IF route.total_length_m # Null
                   THEN [S EXCEPT !.activeLengthM = route.total_length_m]
                   ELSE S
        S2 == IF hasLinks THEN updateRouteLinks(S1, links) ELSE S1
    IN  [S2 EXCEPT !.isRoutePollInFlight = FALSE]

\* Variant of pollRouteStateFailed that takes the failure for "no route".
pollRouteStateFailedDropsRoute(S) ==
    [setActiveRoute(S, NoRoute) EXCEPT !.isRoutePollInFlight = FALSE]

pollRouteStateFailed(S) == [S EXCEPT !.isRoutePollInFlight = FALSE]

\* updateCharts() up to its await, then from the response (or the error) on.
updateCharts(S) ==
    IF S.isChartRequestInFlight THEN S
    ELSE [S EXCEPT !.isChartRequestInFlight = TRUE, !.reqChart = @ + 1]

updateChartsDone(S) == [S EXCEPT !.isChartRequestInFlight = FALSE]

\* ------------------------------------------------------------ route workflow

\* Variant of planRoute that asks for a plan whatever is selected.
planRouteUnguarded(S) ==
    [S EXCEPT !.reqPlan = Append(@, [start_link_id |-> S.startLinkId,
                                     end_link_id |-> S.endLinkId])]

\* planRoute() up to its await.
planRoute(S) ==
    IF S.startLinkId = Null \/ S.endLinkId = Null
    THEN [S EXCEPT !.planMessage = "Select start and end links."]
    ELSE [S EXCEPT !.reqPlan = Append(@, [start_link_id |-> S.startLinkId,
                                         end_link_id |-> S.endLinkId])]

planRouteDone(S, linkIds, lengthM) ==
    refreshRouteStyles([setPlannedRoute(S, linkIds, lengthM) EXCEPT !.planMessage = Null])

\* Variant of planRouteFailed that reports the failure and keeps the plan.
planRouteFailedKeepsPlan(S) ==
    refreshRouteStyles([S EXCEPT !.planMessage = "Route planning failed."])

planRouteFailed(S) ==
    refreshRouteStyles(
        [setPlannedRoute(S, <<>>, Null) EXCEPT !.planMessage = "Route planning failed."])

\* activateRoute() up to its await.
activateRoute(S) ==
    IF S.plannedLinkIds = <<>>
    THEN [S EXCEPT !.planMessage = "Plan a route before activating."]
    ELSE [S EXCEPT !.reqActivate = @ + 1]

\* Variant of activateRouteDone that activates the locally planned route.
activateRouteDoneLocal(S, hasRoute, route) ==
    IF hasRoute
    THEN setActiveRoute([S EXCEPT !.planMessage = Null],
                        [route EXCEPT !.link_ids = S.plannedLinkIds,
                                      !.total_length_m = S.plannedLengthM])
    ELSE [S EXCEPT !.planMessage = Null]

\* activateRoute() from the response to its next await (fetchLiveLinks).
activateRouteDone(S, hasRoute, route) ==
    IF hasRoute THEN setActiveRoute([S EXCEPT !.planMessage = Null], route)
    ELSE [S EXCEPT !.planMessage = Null]

\* Variant of activateRouteFailed that also wipes the plan.
activateRouteFailedWipesPlan(S) ==
    [setPlannedRoute(S, <<>>, Null) EXCEPT !.planMessage = "Route activation failed."]

activateRouteFailed(S) == [S EXCEPT !.planMessage = "Route activation failed."]

\* ----------------------------------------------------------------- actions

\* bootstrap() up to its first await: initMap, initChart, initListeners, then
\* initAdminLinks() asks for the link registry.
BootStart ==
    /\ boot = "new"
    /\ Becomes([Cur EXCEPT !.map = TRUE,
                           !.reqAdmin = Append(@, [includeCoords |-> ~geometryLoaded,
                                                   boot |-> TRUE]),
                           !.boot = "admin"])

\* The refresh button: initAdminLinks() again.
RefreshAdminLinks ==
    /\ boot # "new"
    /\ Len(reqAdmin) < MaxOutstanding
    /\ Becomes([Cur EXCEPT !.reqAdmin = Append(@, [includeCoords |-> ~geometryLoaded,
                                                   boot |-> FALSE])])

\* fetchAdminLinks() from the response on; bootstrap() then goes on to
\* fetchActiveRoute().
AdminLinksResolve(catalogs) ==
    \E k \in 1..Len(reqAdmin) :
    \E links \in {c \in catalogs : reqAdmin[k].includeCoords \/ NoCoords(c)} :
        Becomes([applyNetworkGeometry(Cur, links) EXCEPT
                    !.reqAdmin = RemoveAt(@, k),
                    !.boot = IF reqAdmin[k].boot THEN "route" ELSE @])

AdminLinksFail ==
    \E k \in 1..Len(reqAdmin) :
        Becomes([Cur EXCEPT !.reqAdmin = RemoveAt(@, k),
                            !.boot = IF reqAdmin[k].boot THEN "route" ELSE @])

\* bootstrap() after fetchActiveRoute(): the first poll and the timers.
bootstrapRest(S) ==
    LET S1 == [pollState(S) EXCEPT !.pollInterval = TRUE]
        S2 == IF S1.activeLinkIds # {} THEN startRoutePolling(S1) ELSE S1
    IN  [S2 EXCEPT !.chartPollInterval = TRUE, !.boot = "run"]

ActiveRouteResolve(routes) ==
    /\ boot = "route"
    /\ \E route \in routes \cup {NoRoute} :
           Becomes(bootstrapRest(setActiveRoute(Cur, route)))

ActiveRouteFail ==
    /\ boot = "route"
    /\ Becomes(bootstrapRest(Cur))

\* Time passes, up to the next threshold pollState() compares with.
AdvanceTime ==
    /\ boot # "new"
    /\ sinceFullPoll < focusedPollIntervalMs
    /\ Becomes([Cur EXCEPT !.sinceFullPoll =
                    IF @ < pollIntervalMs THEN pollIntervalMs ELSE focusedPollIntervalMs])

\* Time passes until uiRefreshMs have gone by since the lists were refreshed.
UiRefreshDue ==
    /\ boot # "new"
    /\ sinceUiRefresh < uiRefreshMs
    /\ Becomes([Cur EXCEPT !.sinceUiRefresh = uiRefreshMs])

VisibilityChange ==
    /\ boot # "new"
    /\ Becomes([Cur EXCEPT !.hidden = ~@])

PollTick ==
    /\ pollInterval
    /\ Len(reqFull) < MaxOutstanding
    /\ Becomes(pollState(Cur))

\* The poll timer fires once focusedPollIntervalMs have passed since the last
\* full poll: the time step and the tick in one.
PollTickLate ==
    /\ pollInterval
    /\ Len(reqFull) < MaxOutstanding
    /\ Becomes(pollState([Cur EXCEPT !.sinceFullPoll = focusedPollIntervalMs]))

PollResolve(snaps, refreshes) ==
    \E k \in 1..Len(reqFull) :
    \E links \in {s \in snaps : reqFull[k] \/ NoCoords(s)} : \E refresh \in refreshes :
        Becomes(pollStateDone([Cur EXCEPT !.reqFull = RemoveAt(@, k)],
                              reqFull[k], links, refresh))

PollFail ==
    \E k \in 1..Len(reqFull) :
        Becomes(pollStateFailed([Cur EXCEPT !.reqFull = RemoveAt(@, k)]))

RoutePollTick ==
    /\ routePollInterval
    /\ reqRoute < MaxOutstanding
    /\ Becomes(pollRouteState(Cur))

RoutePollInactive ==
    /\ reqRoute > 0
    /\ Becomes(pollRouteStateDone([Cur EXCEPT !.reqRoute = @ - 1],
                                  FALSE, FALSE, NoRoute, FALSE, <<>>))

RoutePollResolve(routes, snaps) ==
    /\ reqRoute > 0
    /\ \E hasRoute \in BOOLEAN :
       \E route \in IF hasRoute THEN routes \cup {NoRoute} ELSE {NoRoute} :
       \E hasLinks \in BOOLEAN :
       \E links \in IF hasLinks THEN {s \in snaps : NoCoords(s)} ELSE {<<>>} :
           Becomes(pollRouteStateDone([Cur EXCEPT !.reqRoute = @ - 1],
                                      TRUE, hasRoute, route, hasLinks, links))

RoutePollFail ==
    /\ reqRoute > 0
    /\ Becomes(pollRouteStateFailed([Cur EXCEPT !.reqRoute = @ - 1]))

ChartTick ==
    /\ chartPollInterval
    /\ reqChart < MaxOutstanding
    /\ Becomes(updateCharts(Cur))

ChartResolve ==
    /\ reqChart > 0
    /\ Becomes(updateChartsDone([Cur EXCEPT !.reqChart = @ - 1]))

\* A click on an entity's core layer.
SelectLink ==
    /\ boot # "new"
    /\ \E linkId \in mapLayers : Becomes(handleLinkSelection(Cur, linkId))

ClearRoute ==
    /\ boot # "new"
    /\ Becomes(clearRouteSelection(Cur))

PlanRoute ==
    /\ boot # "new"
    /\ startLinkId = Null \/ endLinkId = Null \/ Len(reqPlan) < MaxPending
    /\ Becomes(planRoute(Cur))

PlanResolve(lengths) ==
    \E k \in 1..Len(reqPlan) :
    \E linkIds \in PlansFor(reqPlan[k]) \cup {<<>>} : \E lengthM \in lengths :
        Becomes(planRouteDone([Cur EXCEPT !.reqPlan = RemoveAt(@, k)], linkIds, lengthM))

PlanFail ==
    \E k \in 1..Len(reqPlan) :
        Becomes(planRouteFailed([Cur EXCEPT !.reqPlan = RemoveAt(@, k)]))

ActivateRoute ==
    /\ boot # "new"
    /\ plannedLinkIds = <<>> \/ reqActivate < MaxPending
    /\ Becomes(activateRoute(Cur))

ActivateResolve(routes) ==
    /\ reqActivate > 0
    /\ \E hasRoute \in BOOLEAN :
       \E route \in IF hasRoute THEN routes \cup {NoRoute} ELSE {NoRoute} :
           Becomes(activateRouteDone([Cur EXCEPT !.reqActivate = @ - 1], hasRoute, route))

ActivateFail ==
    /\ reqActivate > 0
    /\ Becomes(activateRouteFailed([Cur EXCEPT !.reqActivate = @ - 1]))

ToggleFocus ==
    /\ boot # "new"
    /\ Becomes(toggleFocusMode(Cur))

SetViewMode ==
    /\ boot # "new"
    /\ \E mode \in {"live", "simulator"} : Becomes([Cur EXCEPT !.viewMode = mode])

\* The marker checkbox.
ToggleMarkers ==
    /\ boot # "new"
    /\ Becomes(IF showLiveMarkers
               THEN clearLiveMarkers([Cur EXCEPT !.showLiveMarkers = FALSE])
               ELSE updateLiveMarkers([Cur EXCEPT !.showLiveMarkers = TRUE], lastLinks))

\* A live-set read or write comes back (fetchLiveLinks, applyAdminLiveLinks);
\* the handlers that follow it with pollState() are thenPoll.
LiveLinksFetched(lives) ==
    /\ boot # "new"
    /\ \E live \in lives : \E thenPoll \in BOOLEAN :
        /\ thenPoll => Len(reqFull) < MaxOutstanding
        /\ Becomes(IF thenPoll THEN pollState([Cur EXCEPT !.liveLinkIds = live])
                   ELSE [Cur EXCEPT !.liveLinkIds = live])

\* Every handler, with every input of the universes above.
Next ==
    \/ BootStart
    \/ RefreshAdminLinks
    \/ AdminLinksResolve(Catalogs(TRUE))
    \/ AdminLinksFail
    \/ ActiveRouteResolve(ServerRoutes)
    \/ ActiveRouteFail
    \/ AdvanceTime
    \/ UiRefreshDue
    \/ VisibilityChange
    \/ PollTick
    \/ PollTickLate
    \/ PollResolve(Snapshots(TRUE), BOOLEAN)
    \/ PollFail
    \/ RoutePollTick
    \/ RoutePollInactive
    \/ RoutePollResolve(ServerRoutes, Snapshots(FALSE))
    \/ RoutePollFail
    \/ ChartTick
    \/ ChartResolve
    \/ SelectLink
    \/ ClearRoute
    \/ PlanRoute
    \/ PlanResolve(Lengths \cup {Null})
    \/ PlanFail
    \/ ActivateRoute
    \/ ActivateResolve(ServerRoutes)
    \/ ActivateFail
    \/ ToggleFocus
    \/ SetViewMode
    \/ ToggleMarkers
    \/ LiveLinksFetched(SUBSET Ids)

Spec == Init /\ [][Next]_vars

\* ---------------------------------------------------- restricted behaviours
\*
\* Spec takes every input of the universes at every step. The specifications
\* below keep the same handlers and narrow the inputs to what one group of
\* properties is about, so that each can be explored exhaustively.

\* The backend holds one route, of the single link L1, naming no endpoints.
OneLinkRoute ==
    {r \in ServerRoutes : /\ r.link_ids = <<"L1">>
                          /\ r.start_link_id = Null
                          /\ r.total_length_m = "1200"}

\* Routes with a numeric length.
MeasuredRoutes == {r \in ServerRoutes : r.total_length_m = "1200"}

\* The registry knows the geometry of every link.
FullCatalogs == {c \in Catalogs(TRUE) : \A k \in 1..Len(c) : c[k].coords}

\* Congested frames, live or not, with coordinates on every entry or on none.
BusySnapshots ==
    {s \in Snapshots(TRUE) : /\ \A k \in 1..Len(s) : s[k].ci = 90
                             /\ \A j, k \in 1..Len(s) : s[j].coords = s[k].coords}

PlainSnapshots == {s \in BusySnapshots : NoCoords(s)}

\* Frames of live, congested links that always hold L1: <<L1>> and <<L1, L2>>.
SparseSnapshots ==
    {s \in Snapshots(FALSE) : /\ s # <<>>
                              /\ s[1].id = "L1"
                              /\ \A k \in 1..Len(s) : s[k].ci = 90 /\ s[k].is_live}

\* The one frame that holds L1 only.
ThinSnapshots == {s \in SparseSnapshots : Len(s) = 1}

\* The three pollers, their timers, the clock and the page's visibility.
NextPoll ==
    \/ BootStart
    \/ AdminLinksResolve(FullCatalogs)
    \/ AdminLinksFail
    \/ ActiveRouteResolve(OneLinkRoute)
    \/ ActiveRouteFail
    \/ AdvanceTime
    \/ VisibilityChange
    \/ PollTick
    \/ PollResolve({<<>>}, {FALSE})
    \/ PollFail
    \/ RoutePollTick
    \/ RoutePollInactive
    \/ RoutePollResolve(OneLinkRoute, {<<>>})
    \/ RoutePollFail
    \/ ChartTick
    \/ ChartResolve
    \/ LiveLinksFetched({{}})

SpecPoll == Init /\ [][NextPoll]_vars

\* Geometry arriving from the registry and from frames, entities coming and
\* going.
NextGeometry ==
    \/ BootStart
    \/ RefreshAdminLinks
    \/ AdminLinksResolve(Catalogs(TRUE))
    \/ AdminLinksFail
    \/ ActiveRouteResolve(OneLinkRoute)
    \/ ActiveRouteFail
    \/ PollTickLate
    \/ PollResolve(SparseSnapshots, {FALSE})
    \/ RoutePollTick
    \/ RoutePollInactive
    \/ RoutePollResolve(OneLinkRoute, SparseSnapshots)

SpecGeometry == Init /\ [][NextGeometry]_vars

\* The reconciler: full and route-scoped frames, focus and the marker switch.
NextMap ==
    \/ BootStart
    \/ AdminLinksResolve(Catalogs(TRUE))
    \/ AdminLinksFail
    \/ ActiveRouteResolve(OneLinkRoute)
    \/ ActiveRouteFail
    \/ PollTickLate
    \/ PollResolve(BusySnapshots, {FALSE})
    \/ PollFail
    \/ RoutePollTick
    \/ RoutePollInactive
    \/ RoutePollResolve(OneLinkRoute, BusySnapshots)
    \/ RoutePollFail
    \/ ToggleFocus
    \/ ToggleMarkers

SpecMap == Init /\ [][NextMap]_vars

\* The route workflow next to both frame pollers.
NextFrame ==
    \/ BootStart
    \/ AdminLinksResolve(FullCatalogs)
    \/ ActiveRouteResolve({})
    \/ PollTickLate
    \/ PollResolve(ThinSnapshots, {FALSE})
    \/ RoutePollTick
    \/ RoutePollInactive
    \/ RoutePollResolve(OneLinkRoute, ThinSnapshots)
    \/ SelectLink
    \/ ClearRoute
    \/ PlanRoute
    \/ PlanResolve({Null})
    \/ ActivateRoute
    \/ ActivateResolve(OneLinkRoute)
    \/ ToggleFocus

SpecFrame == Init /\ [][NextFrame]_vars

\* The route workflow and the route poller, with every route the backend may
\* hold; the registry and the route requests always answer, and route-poll
\* answers carry no links array.
NextRoute ==
    \/ BootStart
    \/ AdminLinksResolve(FullCatalogs)
    \/ ActiveRouteResolve(MeasuredRoutes)
    \/ RoutePollTick
    \/ RoutePollInactive
    \/ RoutePollResolve(MeasuredRoutes, {})
    \/ SelectLink
    \/ ClearRoute
    \/ PlanRoute
    \/ PlanResolve({"1200"})
    \/ PlanFail
    \/ ActivateRoute
    \/ ActivateResolve(MeasuredRoutes)
    \/ ToggleFocus

SpecRoute == Init /\ [][NextRoute]_vars

\* The route workflow with every outcome of its requests: plans and activations
\* that succeed or are rejected, route polls that answer, report no route or fail.
CanonicalRoutes ==
    {r \in ServerRoutes : r.link_ids = <<"L1", "L2">> /\ r.total_length_m = "900"}

NextWorkflow ==
    \/ BootStart
    \/ AdminLinksResolve(FullCatalogs)
    \/ ActiveRouteResolve({})
    \/ RoutePollTick
    \/ RoutePollInactive
    \/ RoutePollResolve(CanonicalRoutes, {})
    \/ RoutePollFail
    \/ SelectLink
    \/ ClearRoute
    \/ PlanRoute
    \/ PlanResolve({"1200"})
    \/ PlanFail
    \/ ActivateRoute
    \/ ActivateResolve(CanonicalRoutes)
    \/ ActivateFail
    \/ ToggleFocus

SpecWorkflow == Init /\ [][NextWorkflow]_vars

\* Frames that carry an entry without an id, on both frame pollers, over a
\* registry that may or may not know the geometry.
BrokenSnapshots == {s \in Broken(SparseSnapshots) : Len(s) > 1}

NextMalformed ==
    \/ BootStart
    \/ AdminLinksResolve(Catalogs(TRUE))
    \/ ActiveRouteResolve(OneLinkRoute)
    \/ PollTickLate
    \/ PollResolve(BrokenSnapshots, {FALSE})
    \/ RoutePollTick
    \/ RoutePollInactive
    \/ RoutePollResolve(OneLinkRoute, BrokenSnapshots)

SpecMalformed == Init /\ [][NextMalformed]_vars

\* The three pollers with answers and failures, the page's visibility and the
\* focus toggle; every request issued is eventually answered or fails.
NextRetry ==
    \/ BootStart
    \/ AdminLinksResolve(FullCatalogs)
    \/ ActiveRouteResolve(OneLinkRoute)
    \/ AdvanceTime
    \/ VisibilityChange
    \/ PollTick
    \/ PollResolve(ThinSnapshots, {FALSE})
    \/ PollFail
    \/ RoutePollTick
    \/ RoutePollInactive
    \/ RoutePollResolve(OneLinkRoute, ThinSnapshots)
    \/ RoutePollFail
    \/ ChartTick
    \/ ChartResolve
    \/ ToggleFocus

\* The steps of NextRetry that end a full poll (PollResolve, PollFail) and a
\* route poll (RoutePollInactive, RoutePollResolve, RoutePollFail): one request
\* fewer in flight. They are enabled exactly while a request is in flight.
FullPollEnds == Len(reqFull') < Len(reqFull)

RoutePollEnds == reqRoute' < reqRoute

\* Weak fairness of the end of each request: WF_vars(A) is written out as
\* []<>(A is disabled) \/ []<><<A>>_vars for the two frame pollers.
SpecRetry ==
    /\ Init
    /\ [][NextRetry]_vars
    /\ ([]<>(reqFull = <<>>) \/ []<><<FullPollEnds>>_vars)
    /\ ([]<>(reqRoute = 0) \/ []<><<RoutePollEnds>>_vars)
    /\ WF_vars(ChartResolve)

\* The style policy at work: full frames that show L1 live and congested or
\* idle, a server route that names its endpoints or not, the selection of
\* endpoints on the map and the view switch.
StyleSnapshots ==
    {s \in Snapshots(FALSE) : Len(s) = 1 /\ s[1].id = "L1" /\ (s[1].is_live <=> s[1].ci = 90)}

StyleRoutes == {r \in MeasuredRoutes : r.link_ids[1] = "L1"}

NextStyle ==
    \/ BootStart
    \/ AdminLinksResolve(FullCatalogs)
    \/ ActiveRouteResolve(StyleRoutes)
    \/ PollTickLate
    \/ PollResolve(StyleSnapshots, {FALSE})
    \/ SelectLink
    \/ ClearRoute
    \/ ToggleFocus
    \/ SetViewMode

SpecStyle == Init /\ [][NextStyle]_vars

\* The full poll against the two clocks it reads, with a clean admin selection:
\* every list refresh that is due takes the live set of its frame.
NextRefresh ==
    \/ BootStart
    \/ AdminLinksResolve(FullCatalogs)
    \/ ActiveRouteResolve(OneLinkRoute)
    \/ AdvanceTime
    \/ UiRefreshDue
    \/ VisibilityChange
    \/ PollTick
    \/ PollResolve(StyleSnapshots, {TRUE})
    \/ PollFail

SpecRefresh == Init /\ [][NextRefresh]_vars

\* The route workflow over geometry that arrives with the registry or only
\* with the first full frame, after a server route, which may name its
\* endpoints, has been applied.
LateCatalogs == {c \in Catalogs(TRUE) : c[1].coords = c[2].coords}

LateSnapshots ==
    {s \in Snapshots(TRUE) : Len(s) = 1 /\ s[1].id = "L1" /\ s[1].is_live /\ s[1].ci = 90}

NextRestyle ==
    \/ BootStart
    \/ AdminLinksResolve(LateCatalogs)
    \/ ActiveRouteResolve(CanonicalRoutes)
    \/ PollTickLate
    \/ PollResolve(LateSnapshots, {FALSE})
    \/ RoutePollTick
    \/ RoutePollInactive
    \/ RoutePollResolve(CanonicalRoutes, {})
    \/ SelectLink
    \/ ClearRoute
    \/ PlanRoute
    \/ PlanResolve({"1200"})
    \/ PlanFail
    \/ ActivateRoute
    \/ ActivateResolve(CanonicalRoutes)
    \/ ActivateFail
    \/ ToggleFocus

SpecRestyle == Init /\ [][NextRestyle]_vars

\* Full frames during focus: the registry may know the geometry of no link, of
\* one or of both, and may be asked again; frames hold one live link, with its
\* geometry when the request asked for it and the backend has it.
FocusSnapshots ==
    {s \in Snapshots(TRUE) : Len(s) = 1 /\ s[1].is_live /\ s[1].ci = 90}

NextFocus ==
    \/ BootStart
    \/ RefreshAdminLinks
    \/ AdminLinksResolve(Catalogs(TRUE))
    \/ ActiveRouteResolve(OneLinkRoute)
    \/ PollTickLate
    \/ PollResolve(FocusSnapshots, {FALSE})
    \/ RoutePollTick
    \/ RoutePollInactive
    \/ RoutePollResolve(OneLinkRoute, {})
    \/ ToggleFocus

SpecFocus == Init /\ [][NextFocus]_vars

\* ------------------------------------------------------------- properties

\* C1: for each poll kind (full-state, route-scoped, chart-history) at most
\* one request is in flight in every reachable state, and a tick of a kind
\* whose previous request is unresolved issues no request and changes no
\* state.
C1_OneInFlightPerKind ==
    /\ Len(reqFull) <= 1
    /\ reqRoute <= 1
    /\ reqChart <= 1
    /\ (Len(reqFull) = 1 => pollState(Cur) = Cur)
    /\ (reqRoute = 1 => pollRouteState(Cur) = Cur)
    /\ (reqChart = 1 => updateCharts(Cur) = Cur)

\* All three requests are in flight, the page is visible, and every timer is
\* armed with its tick due.
C1_AllInFlightTickDue ==
    /\ Len(reqFull) = 1 /\ reqRoute = 1 /\ reqChart = 1
    /\ pollInterval /\ routePollInterval /\ chartPollInterval
    /\ ~hidden
    /\ activeLinkIds # {}
    /\ sinceFullPoll = focusedPollIntervalMs

\* C2: for each of the three poll kinds a tick that fires while the page is
\* not visible is a no-op: it issues no request and sets no in-flight flag.
\* (The chart tick does not keep to it: updateCharts never reads
\* document.hidden.)
C2_HiddenTickIsNoOp ==
    [][(hidden /\ (PollTick \/ RoutePollTick \/ ChartTick)) => UNCHANGED vars]_vars

\* C3, as stated: over any sequence of full and route-scoped frames an entity
\* for an id is created at most once in the whole session: no frame creates
\* an entity for an id that had one before.
C3_CreatedAtMostOnce ==
    [][(Len(reqFull') < Len(reqFull) \/ reqRoute' < reqRoute)
           => recreated' = recreated]_vars

\* C3, amended: at every moment an id has at most one entity, the one in the
\* overlay table; an entity is created only while the table holds none for
\* the id (on the first sighting of its geometry, and again after a full
\* frame pruned it), so an appearance of an id that has its entity never
\* creates another.
C3_OneEntityPerId ==
    \A i \in Ids : entities[i] = IF i \in DOMAIN polylines THEN 1 ELSE 0

\* An id whose entity was pruned has been given a new one, the only one.
C3_RecreatedAfterPrune ==
    \E i \in recreated : i \in DOMAIN polylines /\ entities[i] = 1

\* C4: with view mode and route selection unchanged, reconciling the same
\* frame twice in a row writes no style to the render surface during the
\* second pass.
C4_SecondPassWritesNothing ==
    \A links \in PlainSnapshots :
        LET first == updateMap(Cur, links)
            second == updateMap([first EXCEPT !.written = {}], links)
        IN  second.written = {}

\* A frame with a styled entity has been reconciled, and reconciling it again
\* writes nothing.
C4_ReconciledOnce ==
    /\ lastLinks # <<>>
    /\ ~focusedMode
    /\ SnapshotIds(lastLinks) \subseteq DOMAIN linkStyleCache
    /\ updateMap(Cur, lastLinks).written = {}

\* C5: for every entity with a diff-cache entry the cached style is the style
\* last written to its layers; applyLinkStyle writes if and only if the
\* computed style differs from the cached one (or none is cached), and every
\* write updates the cache.
C5_CacheMirrorsSurface ==
    /\ DOMAIN linkStyleCache \subseteq DOMAIN polylines
    /\ \A i \in DOMAIN linkStyleCache : linkStyleCache[i] = polylines[i]
    /\ \A i \in DOMAIN polylines : \A e \in Entries(i, FALSE) :
           LET style == getLinkStyle(Cur, e, e.type)
               differs == i \notin DOMAIN linkStyleCache \/ linkStyleCache[i] # style
               after == applyLinkStyle(Cur, i, style)
           IN  /\ (i \in after.written) <=> differs
               /\ differs => /\ after.polylines[i] = style
                             /\ i \in DOMAIN after.linkStyleCache
                             /\ after.linkStyleCache[i] = style
               /\ ~differs => after = Cur

\* Two entities carry cached styles that differ from the creation style.
C5_StyledEntities ==
    /\ DOMAIN linkStyleCache = Ids
    /\ \A i \in Ids : polylines[i] # InitialStyle(TypeOf[i])
    /\ linkStyleCache["L1"] # linkStyleCache["L2"]

\* C6: when an entity (and possibly a marker) exists for an id and a full
\* frame that omits the id is reconciled, then after that one call the id has
\* no entity, no cached link state, no cached style and no marker.
C6_PruneRemovesAll ==
    \A links \in PlainSnapshots :
        LET after == updateMap(Cur, links)
        IN  \A i \in (DOMAIN polylines) \ SnapshotIds(links) :
                /\ i \notin DOMAIN after.polylines
                /\ i \notin after.mapLayers
                /\ after.entities[i] = 0
                /\ i \notin DOMAIN after.linkStateCache
                /\ i \notin DOMAIN after.linkStyleCache
                /\ i \notin after.liveMarkers

\* The last full frame omitted an id that had an entity; nothing of it is
\* left, while another entity and its marker remain.
C6_PrunedOne ==
    \E i \in created :
        /\ lastLinks # <<>>
        /\ i \notin SnapshotIds(lastLinks)
        /\ i \notin DOMAIN polylines
        /\ i \notin DOMAIN linkStyleCache
        /\ i \notin liveMarkers
        /\ liveMarkers # {}

\* C7: an entry leaves the overlay table only when a full frame that omits
\* its id is reconciled; a route-scoped poll result, a route workflow action
\* (select, plan, activate, clear) and a focus toggle never remove one.
C7_OnlyFullFramePrunes ==
    [][~((DOMAIN polylines) \subseteq (DOMAIN polylines')) =>
         \E k \in 1..Len(reqFull) : \E links \in ThinSnapshots :
             /\ Becomes(pollStateDone([Cur EXCEPT !.reqFull = RemoveAt(@, k)],
                                      reqFull[k], links, FALSE))
             /\ ((DOMAIN polylines) \ (DOMAIN polylines')) \cap SnapshotIds(links) = {}]_vars

\* L2 was pruned by a full frame; L1 went through a plan, an activation and
\* the focus they switch on, and is still in the table.
C7_PrunedThenRouted ==
    /\ "L2" \in created
    /\ DOMAIN polylines = {"L1"}
    /\ plannedLinkIds # <<>>
    /\ activeLinkIds # {}
    /\ focusedMode

\* C8: every step that changes startLinkId or endLinkId leaves plannedLinkIds
\* empty.  (Applying a server route that carries endpoints does not:
\* setActiveRoute overwrites them and keeps the plan.)
C8_EndpointChangeClearsPlan ==
    [][(startLinkId' # startLinkId \/ endLinkId' # endLinkId)
           => plannedLinkIds' = <<>>]_vars

\* Selecting, clearing and planning, as handlers applied to the current
\* state: none touches the active route.
LocalRouteStepsKeepActive ==
    LET same(S) == S.activeLinkIds = activeLinkIds /\ S.activeLengthM = activeLengthM
    IN  /\ \A linkId \in mapLayers : same(handleLinkSelection(Cur, linkId))
        /\ same(clearRouteSelection(Cur))
        /\ same(planRoute(Cur))
        /\ same(planRouteFailed(Cur))
        /\ \A linkIds \in RouteLists \cup {<<>>} : \A lengthM \in Lengths \cup {Null} :
               same(planRouteDone(Cur, linkIds, lengthM))

\* The handlers that apply a server response, applied to the current state:
\* each leaves activeLinkIds equal to the id set the response carries (an
\* answer without a route carries the set already held).
ServerResponsesSetActive ==
    /\ pollRouteStateDone(Cur, FALSE, FALSE, NoRoute, FALSE, <<>>).activeLinkIds = {}
    /\ pollRouteStateDone(Cur, TRUE, FALSE, NoRoute, FALSE, <<>>).activeLinkIds = activeLinkIds
    /\ activateRouteDone(Cur, FALSE, NoRoute).activeLinkIds = activeLinkIds
    /\ \A route \in MeasuredRoutes \cup {NoRoute} :
           /\ setActiveRoute(Cur, route).activeLinkIds = Range(route.link_ids)
           /\ activateRouteDone(Cur, TRUE, route).activeLinkIds = Range(route.link_ids)
           /\ pollRouteStateDone(Cur, TRUE, TRUE, route, FALSE, <<>>).activeLinkIds
                  = Range(route.link_ids)

\* C9: activeLinkIds changes only when a server response is applied (the
\* activation response, a route-live poll response, the startup active-route
\* fetch), and then becomes exactly the id set the response carries; link
\* selection, clearing and planning, a plan result included, change neither
\* activeLinkIds nor activeLengthM.
C9_ActiveOnlyFromServer ==
    /\ []LocalRouteStepsKeepActive
    /\ []ServerResponsesSetActive
    /\ [][(activeLinkIds' # activeLinkIds \/ activeLengthM' # activeLengthM) =>
              \/ boot = "route" /\ boot' = "run"
              \/ reqActivate' < reqActivate
              \/ reqRoute' < reqRoute]_vars

\* A plan is in place next to an active route of other links.
C9_PlanBesideActive ==
    /\ activeLinkIds # {}
    /\ plannedLinkIds # <<>>
    /\ Range(plannedLinkIds) # activeLinkIds

\* C10: in every reachable state focusedMode implies a non-empty
\* activeLinkIds, so a step that empties activeLinkIds ends with focusedMode
\* false.
C10_FocusNeedsActiveRoute == focusedMode => activeLinkIds # {}

\* Focus is on over an active route whose poller has a request in flight (the
\* answer may say the route is gone).
C10_FocusedOnRoute ==
    /\ focusedMode
    /\ activeLinkIds # {}
    /\ reqRoute > 0

\* The selection states of the route workflow, read off the selection fields.
Idle(S) == S.startLinkId = Null /\ S.endLinkId = Null /\ S.plannedLinkIds = <<>>

BothSelected(S) == S.startLinkId # Null /\ S.endLinkId # Null

Planned(S) == BothSelected(S) /\ S.plannedLinkIds # <<>>

\* C11: selecting the link that is the current start clears the start and the
\* plan derived from it, whatever the state; selecting the same link twice
\* from the idle state gives the idle state back with no message.
C11_ReselectStartClears ==
    /\ \A linkId \in Ids :
           linkId = startLinkId =>
               LET T == handleLinkSelection(Cur, linkId)
               IN  /\ T.startLinkId = Null
                   /\ T.plannedLinkIds = <<>>
                   /\ T.plannedLengthM = Null
    /\ Idle(Cur) =>
           \A linkId \in Ids :
               LET T == handleLinkSelection(handleLinkSelection(Cur, linkId), linkId)
               IN  Idle(T) /\ T.planMessage = Null

\* C11 witness: a planned route whose start link can be selected again.
C11_StartOfPlanSelectable ==
    /\ Planned(Cur)
    /\ startLinkId \in mapLayers

\* C12: from the idle state, selecting a link and then a different link leaves
\* the first as start and the second as end, with no plan.
C12_TwoSelectionsGiveBothSelected ==
    Idle(Cur) =>
        \A A \in Ids : \A B \in Ids \ {A} :
            LET T == handleLinkSelection(handleLinkSelection(Cur, A), B)
            IN  /\ T.startLinkId = A
                /\ T.endLinkId = B
                /\ T.plannedLinkIds = <<>>
                /\ T.plannedLengthM = Null

\* C12 witness: two different links selected, nothing planned or requested.
C12_BothSelectedNoPlan ==
    /\ BothSelected(Cur)
    /\ startLinkId # endLinkId
    /\ plannedLinkIds = <<>>
    /\ plannedLengthM = Null
    /\ reqPlan = <<>>
    /\ planMessage = Null

\* C13: when a plan request made with both ends selected is rejected, the
\* handler keeps start and end, sets a message, and leaves no planned links
\* and no planned length.
C13_FailedPlanWipesPlan ==
    BothSelected(Cur) =>
        \A k \in 1..Len(reqPlan) :
            LET T == planRouteFailed([Cur EXCEPT !.reqPlan = RemoveAt(@, k)])
            IN  /\ T.startLinkId = startLinkId
                /\ T.endLinkId = endLinkId
                /\ T.planMessage # Null
                /\ T.plannedLinkIds = <<>>
                /\ T.plannedLengthM = Null

\* C13 witness: both ends selected after a rejected plan request.
C13_PlanRejected ==
    /\ BothSelected(Cur)
    /\ planMessage = "Route planning failed."
    /\ plannedLinkIds = <<>>
    /\ reqPlan = <<>>

\* C14: a rejected plan request and a rejected activation each set a message
\* and leave the planned route (links, length) and the active route (links,
\* length, focus) exactly as they were.
C14_RejectionKeepsRoutes ==
    LET Kept(T) ==
            /\ T.planMessage # Null
            /\ T.plannedLinkIds = plannedLinkIds
            /\ T.plannedLengthM = plannedLengthM
            /\ T.activeLinkIds = activeLinkIds
            /\ T.activeLengthM = activeLengthM
            /\ T.focusedMode = focusedMode
    IN  /\ \A k \in 1..Len(reqPlan) :
               Kept(planRouteFailed([Cur EXCEPT !.reqPlan = RemoveAt(@, k)]))
        /\ reqActivate > 0 =>
               Kept(activateRouteFailed([Cur EXCEPT !.reqActivate = @ - 1]))

\* C15: a plan response that arrives after the selection changed is dropped:
\* once a plan request has been answered, a non-empty plan runs from the
\* current start to the current end.
C15_StalePlanDiscarded ==
    [][(Len(reqPlan') < Len(reqPlan) /\ plannedLinkIds' # <<>>) =>
           /\ plannedLinkIds'[1] = startLinkId'
           /\ plannedLinkIds'[Len(plannedLinkIds')] = endLinkId']_vars

\* C16: an activation response that arrives after the selection was cleared
\* is dropped: it changes neither the active links, nor start and end, nor the
\* route poll timer, nor focus.
C16_StaleActivationDiscarded ==
    [][(reqActivate' < reqActivate /\ Idle(Cur)) =>
           /\ activeLinkIds' = activeLinkIds
           /\ startLinkId' = startLinkId
           /\ endLinkId' = endLinkId
           /\ routePollInterval' = routePollInterval
           /\ focusedMode' = focusedMode]_vars

\* C17: when an activation requested from the planned state is answered with
\* a non-empty route, the active links and length are the server's (not the
\* planned ones), the message is cleared, focus is on and the route poll
\* timer runs.
C17_ActivationAdoptsServerRoute ==
    (Planned(Cur) /\ reqActivate > 0) =>
        \A route \in ServerRoutes :
            LET T == activateRouteDone([Cur EXCEPT !.reqActivate = @ - 1], TRUE, route)
            IN  /\ T.activeLinkIds = Range(route.link_ids)
                /\ T.activeLengthM = route.total_length_m
                /\ T.planMessage = Null
                /\ T.focusedMode
                /\ T.routePollInterval

\* C17 witness: an active, focused, polled route whose length differs from
\* the length of the plan it was activated from.
C17_ActiveWithServerLength ==
    /\ Planned(Cur)
    /\ activeLinkIds # {}
    /\ activeLengthM # Null
    /\ activeLengthM # plannedLengthM
    /\ planMessage = Null
    /\ focusedMode
    /\ routePollInterval
    /\ reqActivate = 0

\* C18: when an activation requested from the planned state is rejected,
\* only the message changes: plan, start, end, active links, focus and the
\* route poll timer stay as they were, and the message is set.
C18_FailedActivationStaysPlanned ==
    (Planned(Cur) /\ reqActivate > 0) =>
        LET S0 == [Cur EXCEPT !.reqActivate = @ - 1]
            T == activateRouteFailed(S0)
        IN  /\ T.planMessage # Null
            /\ T.plannedLinkIds = plannedLinkIds
            /\ T.plannedLengthM = plannedLengthM
            /\ T.startLinkId = startLinkId
            /\ T.endLinkId = endLinkId
            /\ T.activeLinkIds = activeLinkIds
            /\ T.focusedMode = focusedMode
            /\ T.routePollInterval = routePollInterval
            /\ T = [S0 EXCEPT !.planMessage = T.planMessage]

\* C18 witness: still planned, nothing active or polled, after a rejected
\* activation.
C18_ActivationRejected ==
    /\ Planned(Cur)
    /\ planMessage = "Route activation failed."
    /\ activeLinkIds = {}
    /\ ~routePollInterval
    /\ reqActivate = 0

\* C19: when a route poll issued for an active route reports no active route,
\* or carries an empty route, the active links are emptied, the active length
\* is null, the route timer is stopped, focus is off and the in-flight flag
\* is cleared.
C19_InactivePollClearsRoute ==
    (reqRoute > 0 /\ activeLinkIds # {}) =>
        LET S0 == [Cur EXCEPT !.reqRoute = @ - 1]
            Cleared(T) ==
                /\ T.activeLinkIds = {}
                /\ T.activeLengthM = Null
                /\ ~T.routePollInterval
                /\ ~T.focusedMode
                /\ ~T.isRoutePollInFlight
        IN  /\ Cleared(pollRouteStateDone(S0, FALSE, FALSE, NoRoute, FALSE, <<>>))
            /\ Cleared(pollRouteStateDone(S0, TRUE, TRUE, NoRoute, FALSE, <<>>))

\* C19 witness: a route poll in flight for an active, focused route.
C19_PollingActiveRoute ==
    /\ reqRoute > 0
    /\ isRoutePollInFlight
    /\ activeLinkIds # {}
    /\ activeLengthM # Null
    /\ routePollInterval
    /\ focusedMode

\* C20: a route poll that ends the active route leaves the workflow idle:
\* no start, no end, no plan.
C20_InactivePollGoesIdle ==
    [][(reqRoute' < reqRoute /\ activeLinkIds # {} /\ activeLinkIds' = {}) =>
           /\ startLinkId' = Null
           /\ endLinkId' = Null
           /\ plannedLinkIds' = <<>>]_vars

\* C21: clearing the route leaves the workflow idle from any state: start,
\* end, plan, planned length and message are wiped, the active links are
\* emptied, the route poll timer is stopped and focus is off.
C21_ClearGoesIdle ==
    LET T == clearRouteSelection(Cur)
    IN  /\ Idle(T)
        /\ T.plannedLengthM = Null
        /\ T.planMessage = Null
        /\ T.activeLinkIds = {}
        /\ ~T.routePollInterval
        /\ ~T.focusedMode

\* C22: the focus toggle flips focusedMode when a route is active and does
\* nothing at all when none is; either way the entities, the link-state
\* cache, the style cache and the route selection stay as they were.
C22_ToggleFocusOnlyFlips ==
    LET T == toggleFocusMode(Cur)
    IN  /\ activeLinkIds = {} => T = Cur
        /\ activeLinkIds # {} => T.focusedMode = ~focusedMode
        /\ DOMAIN T.polylines = DOMAIN polylines
        /\ T.entities = entities
        /\ T.created = created
        /\ T.linkStateCache = linkStateCache
        /\ T.linkStyleCache = linkStyleCache
        /\ T.startLinkId = startLinkId
        /\ T.endLinkId = endLinkId
        /\ T.plannedLinkIds = plannedLinkIds
        /\ T.plannedLengthM = plannedLengthM
        /\ T.activeLinkIds = activeLinkIds
        /\ T.activeLengthM = activeLengthM

\* C22 witness: focus was toggled off on an active route, and the entity
\* outside the route is back on the surface with its caches.
C22_FocusToggledOff ==
    /\ activeLinkIds = {"L1"}
    /\ ~focusedMode
    /\ mapLayers = {"L1", "L2"}
    /\ DOMAIN linkStateCache = {"L1", "L2"}
    /\ DOMAIN linkStyleCache = {"L1", "L2"}

\* C23: once bootstrap is over, the route poll timer is armed exactly when
\* a route is active, there is never more than one such timer, and a
\* route-live request is only issued with a route active.
C23_RouteTimerIffActive ==
    /\ [](boot = "run" =>
              /\ routePollInterval <=> activeLinkIds # {}
              /\ routePollInterval <=> routeTimers = 1
              /\ routeTimers <= 1)
    /\ [][reqRoute' > reqRoute => activeLinkIds' # {}]_vars

\* C23 witness: a route active after bootstrap, its one timer armed and a
\* route-live request in flight.
C23_OneTimerPolling ==
    /\ boot = "run"
    /\ activeLinkIds # {}
    /\ routeTimers = 1
    /\ reqRoute > 0

\* C24: a poll of any kind whose request fails leaves the rendered state as
\* it was before the tick: neither the tick up to the request nor the failure
\* changes the entities, the style cache, the link-state cache, the markers,
\* the last snapshot, the route selection or focus.
C24_FailedPollKeepsState ==
    LET Kept(T) ==
            /\ T.polylines = polylines
            /\ T.mapLayers = mapLayers
            /\ T.linkStyleCache = linkStyleCache
            /\ T.linkStateCache = linkStateCache
            /\ T.liveMarkers = liveMarkers
            /\ T.lastLinks = lastLinks
            /\ T.startLinkId = startLinkId
            /\ T.endLinkId = endLinkId
            /\ T.plannedLinkIds = plannedLinkIds
            /\ T.plannedLengthM = plannedLengthM
            /\ T.activeLinkIds = activeLinkIds
            /\ T.activeLengthM = activeLengthM
            /\ T.focusedMode = focusedMode
    IN  /\ Kept(pollState(Cur))
        /\ Kept(pollRouteState(Cur))
        /\ Kept(updateCharts(Cur))
        /\ \A k \in 1..Len(reqFull) :
               Kept(pollStateFailed([Cur EXCEPT !.reqFull = RemoveAt(@, k)]))
        /\ reqRoute > 0 => Kept(pollRouteStateFailed([Cur EXCEPT !.reqRoute = @ - 1]))
        /\ reqChart > 0 => Kept(updateChartsDone([Cur EXCEPT !.reqChart = @ - 1]))

\* C24 witness: requests of all three kinds in flight over a rendered route
\* with a marker.
C24_AllKindsInFlightRendered ==
    /\ reqFull # <<>>
    /\ reqRoute > 0
    /\ reqChart > 0
    /\ activeLinkIds # {}
    /\ DOMAIN linkStateCache # {}
    /\ liveMarkers # {}
    /\ lastLinks # <<>>

\* C25: every in-flight flag is eventually cleared, whatever the outcome of
\* the request, and a kind whose flag is clear is not locked out: its next
\* tick that passes the visibility and interval guards issues a request.
C25_FlagsClearedAndRetried ==
    /\ isPollRequestInFlight ~> ~isPollRequestInFlight
    /\ isRoutePollInFlight ~> ~isRoutePollInFlight
    /\ isChartRequestInFlight ~> ~isChartRequestInFlight
    /\ []((/\ ~isPollRequestInFlight
            /\ ~hidden
            /\ sinceFullPoll >= (IF activeLinkIds # {} THEN focusedPollIntervalMs
                                                      ELSE pollIntervalMs))
              => Len(pollState(Cur).reqFull) = Len(reqFull) + 1)
    /\ []((~isRoutePollInFlight /\ ~hidden /\ activeLinkIds # {})
              => pollRouteState(Cur).reqRoute = reqRoute + 1)
    /\ [](~isChartRequestInFlight => updateCharts(Cur).reqChart = reqChart + 1)

\* C25 witness: the only full polls so far failed (no snapshot was stored),
\* the flag is clear again and the next tick is due.
C25_RetryDueAfterFailure ==
    /\ boot = "run"
    /\ lastLinks = <<>>
    /\ ~isPollRequestInFlight
    /\ reqFull = <<>>
    /\ sinceFullPoll = pollIntervalMs
    /\ activeLinkIds = {}
    /\ ~hidden

\* C26: a full-state request is issued only when at least pollIntervalMs
\* have passed since the previous one, and at least focusedPollIntervalMs
\* when a route is active at that moment, whether a timer tick or a user
\* action asked for it.
C26_AdaptiveCadence ==
    [][Len(reqFull') > Len(reqFull) =>
           sinceFullPoll >= (IF activeLinkIds' # {} THEN focusedPollIntervalMs
                                                    ELSE pollIntervalMs)]_vars

\* C26 witness: a route is active, the idle interval has passed since the
\* last full request and the focused one has not: a tick now issues nothing.
C26_TickHeldBack ==
    /\ boot = "run"
    /\ activeLinkIds # {}
    /\ sinceFullPoll = pollIntervalMs
    /\ ~isPollRequestInFlight
    /\ ~hidden
    /\ pollState(Cur) = Cur

\* C27: an entry without an id is skipped on its own: a frame that carries
\* one leaves the entities, their styles, both caches and the markers exactly
\* as the same frame without it does, whether it is a full frame (entities
\* created and restyled, markers synced, missing ids pruned) or a
\* route-scoped one.
C27_MalformedEntrySkipped ==
    LET Seen(T) ==
            <<T.polylines, T.mapLayers, T.entities, T.created, T.written,
              T.linkStateCache, T.linkStyleCache, T.liveMarkers, T.linkMeta>>
    IN
    /\ \A k \in 1..Len(reqFull) : \A refresh \in BOOLEAN :
       \A links \in {s \in Broken(BusySnapshots) :
                        Len(s) > 1 /\ (reqFull[k] \/ NoCoords(s))} :
           LET S0 == [Cur EXCEPT !.reqFull = RemoveAt(@, k)]
           IN  Seen(pollStateDone(S0, reqFull[k], links, refresh))
                   = Seen(pollStateDone(S0, reqFull[k], WellFormed(links), refresh))
    /\ reqRoute > 0 =>
           \A links \in {s \in Broken(BusySnapshots) : Len(s) > 1 /\ NoCoords(s)} :
               LET S0 == [Cur EXCEPT !.reqRoute = @ - 1]
               IN  Seen(pollRouteStateDone(S0, TRUE, FALSE, NoRoute, TRUE, links))
                       = Seen(pollRouteStateDone(S0, TRUE, FALSE, NoRoute, TRUE,
                                                 WellFormed(links)))

\* C27 witness: the last full frame carried an entry without an id before
\* the entry of L1; L1 has its entity, its state and its marker, and L2,
\* which the frame left out, was pruned.
C27_BrokenFrameReconciled ==
    /\ Len(lastLinks) = 2
    /\ lastLinks[1].id = Null
    /\ lastLinks[2].id = "L1"
    /\ DOMAIN polylines = {"L1"}
    /\ DOMAIN linkStateCache = {"L1"}
    /\ liveMarkers = {"L1"}
    /\ "L2" \in created

\* C28: while focus mode is on there is no live marker: entering focus
\* clears them and neither a poll result nor the marker switch creates one
\* until focus is left.
C28_NoMarkersWhileFocused ==
    focusedMode => liveMarkers = {}

\* C29: with the marker switch on and focus off, a route-scoped frame removes
\* no marker of a link it does not cover: after it is processed every marker
\* of an id outside the frame is still there.
C29_RouteFrameKeepsOtherMarkers ==
    (reqRoute > 0 /\ showLiveMarkers /\ ~focusedMode) =>
        \A links \in PlainSnapshots :
            LET T == pollRouteStateDone([Cur EXCEPT !.reqRoute = @ - 1],
                                        TRUE, FALSE, NoRoute, TRUE, links)
            IN  \A i \in liveMarkers \ SnapshotIds(links) : i \in T.liveMarkers

\* C30: processing the result of a full-state poll changes no route state:
\* start, end, plan, planned length, active links, active length, message
\* and focus are what they were, whatever the frame and whether or not the
\* lists are refreshed.
C30_FullPollKeepsRouteState ==
    LET RouteState(T) ==
            <<T.startLinkId, T.endLinkId, T.plannedLinkIds, T.plannedLengthM,
              T.activeLinkIds, T.activeLengthM, T.planMessage, T.focusedMode>>
    IN  \A k \in 1..Len(reqFull) : \A refresh \in BOOLEAN :
        \A links \in {s \in BusySnapshots : reqFull[k] \/ NoCoords(s)} :
            RouteState(pollStateDone([Cur EXCEPT !.reqFull = RemoveAt(@, k)],
                                     reqFull[k], links, refresh))
                = RouteState(Cur)

\* C30 witness: a full-state request in flight while a route is planned,
\* active and focused.
C30_FullPollOverRoute ==
    /\ reqFull # <<>>
    /\ Planned(Cur)
    /\ activeLinkIds # {}
    /\ focusedMode
    /\ lastLinks # <<>>

\* C31: in every reachable state startLinkId and endLinkId are not the same
\* non-null id, so the start and the end override never both apply to a link.
C31_EndpointsDistinct == startLinkId = Null \/ startLinkId # endLinkId

\* Link states of every liveness and type with the given congestion indices;
\* CiBuckets has a value below, at and above each threshold of the policy.
CiBuckets == {5, 10, 11, 40, 41, 60, 61, 80, 81, 90}

StyleLinks(cis) ==
    {[id |-> "L1", type |-> t, is_live |-> l, ci |-> c, coords |-> FALSE] :
        t \in {"road", "transit"}, l \in BOOLEAN, c \in cis}

\* What the style policy reads of the application: the view mode and the
\* route selection. RouteViews has the current one and every combination of
\* L1 being planned, active, the start and the end, in both view modes.
RouteView(mode, planned, active, start, end) ==
    [viewMode |-> mode, startLinkId |-> start, endLinkId |-> end,
     plannedLinkIds |-> planned, activeLinkIds |-> active]

RouteViews ==
    {RouteView(viewMode, plannedLinkIds, activeLinkIds, startLinkId, endLinkId)}
    \cup {RouteView(mode, p, a, s, e) :
            mode \in {"live", "simulator"}, p \in {<<>>, <<"L1">>},
            a \in {{}, {"L1"}}, s \in {Null, "L1"}, e \in {Null, "L1"}}

Unrouted(R) == RouteView(R.viewMode, <<>>, {}, Null, Null)

\* C32: whatever the link state, the view mode and the route selection, the
\* style with the route overrides has a weight, an opacity and a glow opacity
\* no lower than the style without them (so a congested link that is the
\* start is at least as heavy as congestion alone gives), and no lower than
\* the floor of each override that applies: planned 6 / 0.35, active
\* 6 / 0.45, start and end 7 / 0.6 with opacity 1.
C32_MonotonicFloor ==
    \A R \in RouteViews : \A link \in StyleLinks({5, 11, 41, 90}) :
        LET base == getLinkStyle(Unrouted(R), link, link.type)
            st == getLinkStyle(R, link, link.type)
        IN  /\ st.weight >= base.weight
            /\ st.opacity >= base.opacity
            /\ st.glowOpacity >= base.glowOpacity
            /\ link.id \in Range(R.plannedLinkIds) =>
                   st.weight >= 6 /\ st.glowOpacity >= 35
            /\ link.id \in R.activeLinkIds => st.weight >= 6 /\ st.glowOpacity >= 45
            /\ link.id \in {R.startLinkId, R.endLinkId} =>
                   st.weight >= 7 /\ st.glowOpacity >= 60 /\ st.opacity = 100

\* A live link in the danger bucket is the start of the selection and its
\* entity carries the start weight.
C32_CongestedStart ==
    /\ startLinkId = "L1"
    /\ "L1" \in DOMAIN linkStateCache
    /\ linkStateCache["L1"].is_live
    /\ linkStateCache["L1"].ci > 80
    /\ "L1" \in DOMAIN polylines
    /\ polylines["L1"].weight = 7

\* The route views in which L1 has no route membership.
NoMembership(R) ==
    /\ "L1" \notin Range(R.plannedLinkIds)
    /\ "L1" \notin R.activeLinkIds
    /\ "L1" \notin {R.startLinkId, R.endLinkId}

\* C33: for a link with no route membership the style is the reference
\* policy: highlighted is isLive in live view and not isLive in simulator
\* view; a link that is not highlighted gets the dim colour of its type with
\* opacity 0.35 whatever its congestion; a highlighted road link gets the
\* neutral colour up to 0.4, warn-1 above 0.4, warn-2 above 0.6 and danger
\* above 0.8; a highlighted transit link gets the transit colour in every
\* bucket; a live road link at 0.9 in live view gets the danger colour, the
\* danger weight and opacity 1.
C33_ReferencePolicy ==
    \A R \in {V \in RouteViews : NoMembership(V)} : \A link \in StyleLinks(CiBuckets) :
        LET st == getLinkStyle(R, link, link.type)
            highlighted == IF R.viewMode = "live" THEN link.is_live ELSE ~link.is_live
        IN  /\ ~highlighted =>
                /\ st.color = (IF link.type = "transit" THEN "#a855f7" ELSE "#334155")
                /\ st.glowColor = st.color
                /\ st.opacity = 35
            /\ highlighted /\ link.type = "transit" =>
                st.color = "#a855f7" /\ st.glowColor = "#a855f7"
            /\ highlighted /\ link.type # "transit" =>
                /\ link.ci <= 40 => st.color = "#334155"
                /\ link.ci > 40 /\ link.ci <= 60 => st.color = "#00f2ff"
                /\ link.ci > 60 /\ link.ci <= 80 => st.color = "#ffcc00"
                /\ link.ci > 80 => st.color = "#ff0055" /\ st.weight = 6 /\ st.opacity = 100
                /\ st.glowColor = st.color

\* In live view the entity of L1, live at 0.9 and on no route, carries the
\* danger style.
C33_DangerRendered ==
    /\ viewMode = "live"
    /\ NoMembership(RouteView(viewMode, plannedLinkIds, activeLinkIds, startLinkId, endLinkId))
    /\ "L1" \in DOMAIN linkStateCache
    /\ linkStateCache["L1"].is_live
    /\ linkStateCache["L1"].ci = 90
    /\ "L1" \in DOMAIN polylines
    /\ polylines["L1"].color = "#ff0055"
    /\ polylines["L1"].weight = 6
    /\ polylines["L1"].opacity = 100

\* The route views in which L1 is on the active route and is neither endpoint.
ActiveInterior(R) ==
    /\ "L1" \in R.activeLinkIds
    /\ "L1" \notin {R.startLinkId, R.endLinkId}

\* C34: a link on the active route that is neither the start nor the end has
\* the active-route glow tint and a glow opacity of at least 0.45, whatever
\* its base style and whether or not it is on the planned route too.
C34_ActiveGlow ==
    \A R \in {V \in RouteViews : ActiveInterior(V)} :
    \A link \in StyleLinks({5, 11, 41, 90}) :
        LET st == getLinkStyle(R, link, link.type)
        IN  st.glowColor = "#22c55e" /\ st.glowOpacity >= 45

\* The entity of L1, live at 0.9, is on the active route, is no endpoint and
\* glows in the active tint.
C34_ActiveLinkRendered ==
    /\ ActiveInterior(RouteView(viewMode, plannedLinkIds, activeLinkIds, startLinkId, endLinkId))
    /\ "L1" \in DOMAIN linkStateCache
    /\ linkStateCache["L1"].is_live
    /\ linkStateCache["L1"].ci = 90
    /\ "L1" \in DOMAIN polylines
    /\ polylines["L1"].glowColor = "#22c55e"
    /\ polylines["L1"].glowOpacity >= 45

\* C35: planRoute() with the start or the end unset, and activateRoute() with
\* no planned links, send nothing to the server, set planMessage to an
\* explanation and change nothing else (start, end, plan, active route and
\* focus included); a plan request is only ever issued with both endpoints
\* selected and an activation request only with a planned route.
C35_InvalidActionsSendNothing ==
    /\ [](LET S == Cur
          IN  /\ (S.startLinkId = Null \/ S.endLinkId = Null) =>
                   LET T == planRoute(S)
                   IN  /\ T.planMessage # Null
                       /\ T = [S EXCEPT !.planMessage = T.planMessage]
              /\ S.plannedLinkIds = <<>> =>
                   LET T == activateRoute(S)
                   IN  /\ T.planMessage # Null
                       /\ T = [S EXCEPT !.planMessage = T.planMessage])
    /\ [][/\ Len(reqPlan') > Len(reqPlan) => startLinkId # Null /\ endLinkId # Null
          /\ reqActivate' > reqActivate => plannedLinkIds # <<>>]_vars

\* Activation was asked for with a start selected and no plan: the
\* explanation is shown and no request is in flight.
C35_ActivateWithoutPlan ==
    /\ planMessage = "Plan a route before activating."
    /\ startLinkId # Null
    /\ plannedLinkIds = <<>>
    /\ reqActivate = 0
    /\ reqPlan = <<>>

\* The ids a frame shows live.
LiveIn(links) == {links[k].id : k \in {j \in 1..Len(links) : links[j].is_live}}

\* C36: in a full poll cycle the reconciliation of the overlay (updateMap) is
\* over before the refresh of the lists begins; the lists are refreshed
\* exactly when uiRefreshMs have passed since they last were, which restarts
\* that clock, and a cycle that completes sooner skips the refresh (the live
\* set of the admin list is left alone), so that two refreshes are at least
\* uiRefreshMs apart.
C36_RefreshAfterMapAndThrottled ==
    /\ [](\A k \in 1..Len(reqFull) : \A links \in StyleSnapshots : \A clean \in BOOLEAN :
            LET S0 == [Cur EXCEPT !.reqFull = RemoveAt(@, k)]
                T == pollStateDone(S0, reqFull[k], links, clean)
                due == sinceUiRefresh >= uiRefreshMs
            IN  /\ T.steps \in {<<>>, <<"updateMap">>, <<"refreshLists">>,
                               <<"updateMap", "refreshLists">>}
                /\ "refreshLists" \in Range(T.steps) <=> due
                /\ "updateMap" \in Range(T.steps) <=> (~focusedMode \/ activeLinkIds = {})
                /\ due => T.sinceUiRefresh = 0
                /\ due /\ clean => T.liveLinkIds = LiveIn(links)
                /\ ~due => T.sinceUiRefresh = sinceUiRefresh /\ T.liveLinkIds = liveLinkIds)
    /\ [][/\ liveLinkIds' # liveLinkIds => sinceUiRefresh = uiRefreshMs /\ sinceUiRefresh' = 0
          /\ sinceUiRefresh' < sinceUiRefresh => Len(reqFull') < Len(reqFull)]_vars

\* A cycle completed before uiRefreshMs had passed since the last refresh: its
\* frame is the last snapshot, and the admin list still has the live set of
\* the frame before.
C36_RefreshSkipped ==
    /\ reqFull = <<>>
    /\ sinceUiRefresh < uiRefreshMs
    /\ lastLinks # <<>>
    /\ liveLinkIds # LiveIn(lastLinks)

\* C37: the metadata cache only grows: an id that has a cached type keeps
\* one, and an id whose coordinates are cached keeps them, also when a full
\* snapshot prunes its entity; geometryLoaded, once set, stays set, and from
\* then on no request for the full state or for the link registry asks for
\* coordinates.
C37_MetadataKept ==
    [][/\ \A i \in Ids :
            /\ linkMeta[i].type # "none" => linkMeta'[i].type # "none"
            /\ linkMeta[i].coords => linkMeta'[i].coords
       /\ geometryLoaded => geometryLoaded'
       /\ (geometryLoaded /\ Len(reqFull') > Len(reqFull)) => ~reqFull'[Len(reqFull')]
       /\ (geometryLoaded /\ Len(reqAdmin') > Len(reqAdmin)) =>
              ~reqAdmin'[Len(reqAdmin')].includeCoords]_vars

\* The entity of L2 has been pruned, its type and coordinates are still
\* cached, and a full poll and a registry refresh without coordinates are in
\* flight.
C37_PrunedIdKeepsMeta ==
    /\ geometryLoaded
    /\ "L2" \in created
    /\ "L2" \notin DOMAIN polylines
    /\ linkMeta["L2"].coords
    /\ linkMeta["L2"].type # "none"
    /\ reqFull = <<FALSE>>
    /\ reqAdmin # <<>>
    /\ ~reqAdmin[1].includeCoords

\* C38: in every reachable state a planned route comes with both endpoints:
\* plannedLinkIds is empty unless startLinkId and endLinkId are both set.
C38_PlannedHasEndpoints ==
    plannedLinkIds # <<>> => startLinkId # Null /\ endLinkId # Null

\* The styles the policy gives entity i under the current view mode and route
\* selection: on its last known link state or, when it has none, on the
\* fallback state (whose liveness follows the admin live set).
PolicyStyles(i) ==
    LET R == RouteView(viewMode, plannedLinkIds, activeLinkIds, startLinkId, endLinkId)
        type == IF linkMeta[i].type # "none" THEN linkMeta[i].type ELSE "road"
    IN  IF i \in DOMAIN linkStateCache
        THEN {getLinkStyle(R, linkStateCache[i], linkStateCache[i].type)}
        ELSE {getLinkStyle(R, [id |-> i, type |-> type, is_live |-> l, ci |-> 0], type) :
                l \in BOOLEAN}

\* Every entity carries a style of the policy; one never seen in a frame and
\* not on a route may still carry the style it was created with.
StylesCurrent ==
    \A i \in DOMAIN polylines :
        \/ polylines[i] \in PolicyStyles(i)
        \/ /\ i \notin DOMAIN linkStateCache
           /\ i \notin getRouteStyleIds(Cur)
           /\ polylines[i] = InitialStyle(linkMeta[i].type)

\* The steps that complete a route action: the selection changes (a click, a
\* clear, a server route applied or cleared), or a plan, an activation or the
\* first fetch of the active route ends.
RouteActionEnds ==
    \/ <<startLinkId, endLinkId, plannedLinkIds, activeLinkIds>>'
           # <<startLinkId, endLinkId, plannedLinkIds, activeLinkIds>>
    \/ Len(reqPlan') < Len(reqPlan)
    \/ reqActivate' < reqActivate
    \/ boot = "route" /\ boot' # "route"

\* C39: with the view mode unchanged, after every completed route action (a
\* selection, a clear, a plan or activation result, a server route applied or
\* cleared) the style last applied to every entity is the style policy on its
\* last known link state with the current route selection: no entity keeps an
\* override it no longer qualifies for and none lacks one it qualifies for.
C39_RouteStylesCurrent == [][RouteActionEnds => StylesCurrent']_vars

\* What processing a full frame leaves of the overlay, the caches and the
\* markers.
Overlay(S) ==
    <<S.polylines, S.mapLayers, S.entities, S.created, S.recreated, S.liveMarkers,
      S.linkStateCache, S.linkStyleCache, S.linkMeta, S.geometryLoaded>>

\* C40 as stated: while focused on an active route with the geometry loaded,
\* processing the result of any full poll in flight creates, restyles and
\* prunes no entity and touches no marker.
C40_FocusedFrameSkipped ==
    (focusedMode /\ activeLinkIds # {} /\ geometryLoaded) =>
        \A k \in 1..Len(reqFull) :
        \A links \in {s \in FocusSnapshots : reqFull[k] \/ NoCoords(s)} :
            LET S0 == [Cur EXCEPT !.reqFull = RemoveAt(@, k)]
                T == pollStateDone(S0, reqFull[k], links, FALSE)
            IN  Overlay(T) = Overlay(S0) /\ T.written = {}

\* C40, for a poll issued once the geometry was loaded (it asks for no
\* coordinates): while focused on an active route, processing its result
\* creates, restyles and prunes no entity and touches no marker; only the last
\* snapshot, the list refresh and the in-flight flag change. No step taken
\* while focused removes an id from the overlay table, so an id that full
\* snapshots omit during focus stays until a full snapshot is reconciled
\* after focus is left.
C40_FocusedPlainFrameSkipped ==
    /\ []((focusedMode /\ activeLinkIds # {}) =>
            \A k \in {j \in 1..Len(reqFull) : ~reqFull[j]} :
            \A links \in {s \in FocusSnapshots : NoCoords(s)} : \A clean \in BOOLEAN :
                LET S0 == [Cur EXCEPT !.reqFull = RemoveAt(@, k)]
                    T == pollStateDone(S0, FALSE, links, clean)
                IN  /\ Overlay(T) = Overlay(S0)
                    /\ T.written = {}
                    /\ "updateMap" \notin Range(T.steps)
                    /\ T = [S0 EXCEPT !.lastLinks = links,
                                      !.sinceUiRefresh = T.sinceUiRefresh,
                                      !.liveLinkIds = T.liveLinkIds,
                                      !.isPollRequestInFlight = FALSE,
                                      !.steps = T.steps])
    /\ [][(focusedMode /\ activeLinkIds # {}) =>
              (DOMAIN polylines) \subseteq (DOMAIN polylines')]_vars

\* Focused on the active route with the geometry loaded: the last full
\* snapshot holds L1 only and was not reconciled, the entity of L2 is still
\* in the overlay table.
C40_OmittedIdKept ==
    /\ focusedMode
    /\ activeLinkIds # {}
    /\ geometryLoaded
    /\ reqFull = <<>>
    /\ lastLinks # <<>>
    /\ lastLinks[1].id = "L1"
    /\ "L1" \notin DOMAIN linkStateCache
    /\ "L2" \in DOMAIN polylines

====
